---- MODULE Spec2Model ----
(***************************************************************************)
(* Glyph: a note store driven through a simulated command shell.           *)
(*                                                                         *)
(* The model covers the shell session (src/hooks/useShell.ts), the command *)
(* dispatcher (src/lib/commands.ts), the store operations it calls (the    *)
(* Dexie database module) and the guard of the terminal component that     *)
(* submits lines to the session.                                           *)
(*                                                                         *)
(* Text is modelled character by character: a string is a sequence of      *)
(* one-character strings.  A character outside ASCII is written as its     *)
(* code point, e.g. "U+00E2"; the backtick is written "U+0060".  The       *)
(* glyphs of commands.ts are kept as the characters the file holds.        *)
(***************************************************************************)
EXTENDS Integers, Sequences, FiniteSets, TLC

VARIABLES
    notes,            \* db.notes: note id -> Note record
    folders,          \* db.folders: folder id -> Folder record
    recentlyDeleted,  \* db.recentlyDeleted, in primary-key order
    nextNoteId,       \* auto-increment key generator of db.notes
    nextFolderId,     \* auto-increment key generator of db.folders
    config,           \* db.config: the stored rows, in primary-key order
    clock,            \* Date.now()
    history,          \* useShell: command history
    historyIndex,     \* useShell: history navigation cursor (-1: not navigating)
    currentPath,      \* useShell: current directory id (NoId: root)
    pathString,       \* useShell: resolved path display
    output,           \* useShell: visible output log
    isProcessing,     \* useShell: a pipeline is running
    mounted,          \* Terminal: the mount effect has run
    pendingPath,      \* updatePathString: getFolder calls not yet resolved
    running,          \* execute calls in flight, in start order
    lastRun,          \* record of the execute call that completed last
    prevRun,          \* record of the execute call that completed before it
    submitted,        \* lines passed to execute, in order
    attempts,         \* lines submitted to the terminal or passed to execute
    dropped,          \* non-blank lines ignored because a pipeline was running
    blanks            \* blank lines passed to execute

storeVars == <<notes, folders, recentlyDeleted, nextNoteId, nextFolderId,
               config>>
shellVars == <<history, historyIndex, currentPath, pathString, output,
               isProcessing>>
runVars == <<running, lastRun, prevRun, submitted>>
vars == <<notes, folders, recentlyDeleted, nextNoteId, nextFolderId, config,
          clock,
          history, historyIndex, currentPath, pathString, output,
          isProcessing, mounted, pendingPath, running, lastRun, prevRun,
          submitted, attempts, dropped, blanks>>

----------------------------------------------------------------------------
(* Bounds of the model *)

MaxSubmits == 3     \* lines submitted by the user in one behaviour
MaxClock == 1       \* ticks of the millisecond clock in one behaviour
MaxHistSubmits == 102  \* lines submitted in the history specification
MaxTreeSubmits == 5    \* lines submitted in the folder-tree specification

(* Program constants *)

MAX_INPUT == 1000   \* parseAndExecute: longest accepted trimmed input
HISTORY_MAX == 100  \* addToHistory: entries kept
MAX_TITLE == 500    \* createNote: title.slice(0, 500)
MAX_FOLDER_NAME == 100  \* createFolder: name.slice(0, 100)
ID_PAD == 4         \* formatNoteRow: String(id).padStart(4)
TITLE_PAD == 40     \* formatNoteRow: title column width
TITLE_CUT == 37     \* formatNoteRow: kept characters of a long title

NoId == 0           \* an absent id: `undefined` parentId / currentPath

----------------------------------------------------------------------------
(* Strings *)

Space == " "
IsSpace(c) == c \in {" ", "\t", "\n"}
Digits == <<"0", "1", "2", "3", "4", "5", "6", "7", "8", "9">>
IsDigit(c) == \E d \in 1..10 : Digits[d] = c
DigitVal(c) == (CHOOSE d \in 1..10 : Digits[d] = c) - 1

LowerLetters ==
    <<"a", "b", "c", "d", "e", "f", "g", "h", "i", "j", "k", "l", "m",
      "n", "o", "p", "q", "r", "s", "t", "u", "v", "w", "x", "y", "z">>
UpperLetters ==
    <<"A", "B", "C", "D", "E", "F", "G", "H", "I", "J", "K", "L", "M",
      "N", "O", "P", "Q", "R", "S", "T", "U", "V", "W", "X", "Y", "Z">>
IsUpper(c) == \E k \in 1..26 : UpperLetters[k] = c
IsLower(c) == \E k \in 1..26 : LowerLetters[k] = c

\* String.prototype.toLowerCase, one character
LowerChar(c) ==
    IF IsUpper(c) THEN LowerLetters[CHOOSE k \in 1..26 : UpperLetters[k] = c]
    ELSE c
toLowerCase(s) == [i \in 1..Len(s) |-> LowerChar(s[i])]

\* the regular-expression class [\w-]
IsWordOrHyphen(c) == IsUpper(c) \/ IsLower(c) \/ IsDigit(c) \/ c \in {"_", "-"}

\* String.prototype.trimStart / trimEnd / trim
RECURSIVE trimStart(_)
trimStart(s) ==
    IF Len(s) = 0 \/ ~IsSpace(s[1]) THEN s ELSE trimStart(Tail(s))
RECURSIVE trimEnd(_)
trimEnd(s) ==
    IF Len(s) = 0 \/ ~IsSpace(s[Len(s)]) THEN s
    ELSE trimEnd(SubSeq(s, 1, Len(s) - 1))
trim(s) == trimEnd(trimStart(s))

\* String.prototype.slice(0, n), for n >= 0
sliceTo(s, n) == IF Len(s) <= n THEN s ELSE SubSeq(s, 1, n)

\* String.prototype.includes
includes(s, sub) ==
    \E i \in 0..(Len(s) - Len(sub)) : SubSeq(s, i + 1, i + Len(sub)) = sub

\* String.prototype.startsWith
startsWith(s, prefix) ==
    /\ Len(prefix) <= Len(s)
    /\ SubSeq(s, 1, Len(prefix)) = prefix

\* String.prototype.split(sep) for a one-character separator
split(s, sep) ==
    LET cuts == {i \in 1..Len(s) : s[i] = sep}
        n == Cardinality(cuts)
        \* position of the k-th separator; 0 and Len(s)+1 are the ends
        cut[k \in 0..(n + 1)] ==
            IF k = 0 THEN 0
            ELSE IF k = n + 1 THEN Len(s) + 1
            ELSE CHOOSE i \in cuts : Cardinality({j \in cuts : j < i}) = k - 1
    IN  [k \in 1..(n + 1) |-> SubSeq(s, cut[k - 1] + 1, cut[k] - 1)]

\* String(n) for an integer n
RECURSIVE IntToStr(_)
IntToStr(n) ==
    IF n < 0 THEN <<"-">> \o IntToStr(0 - n)
    ELSE IF n < 10 THEN <<Digits[n + 1]>>
    ELSE IntToStr(n \div 10) \o <<Digits[(n % 10) + 1]>>

Spaces(n) == [i \in 1..n |-> Space]
padStart(s, n) == IF Len(s) >= n THEN s ELSE Spaces(n - Len(s)) \o s
padEnd(s, n) == IF Len(s) >= n THEN s ELSE s \o Spaces(n - Len(s))

\* Array.prototype.join(", ") over strings
RECURSIVE JoinComma(_)
JoinComma(ss) ==
    IF Len(ss) = 0 THEN <<>>
    ELSE IF Len(ss) = 1 THEN ss[1]
    ELSE ss[1] \o <<",", " ">> \o JoinComma(Tail(ss))

\* concatenation of a sequence of strings
RECURSIVE Cat(_)
Cat(ss) == IF Len(ss) = 0 THEN <<>> ELSE ss[1] \o Cat(Tail(ss))

\* parseInt(s): leading white space is skipped, an optional sign and the
\* longest run of digits are read, the rest is ignored; NaN without a digit
NaN == [nan |-> TRUE, val |-> 0]
RECURSIVE DigitsValue(_, _)
DigitsValue(s, acc) ==
    IF Len(s) = 0 \/ ~IsDigit(s[1]) THEN acc
    ELSE DigitsValue(Tail(s), 10 * acc + DigitVal(s[1]))
parseInt(s) ==
    LET t == trimStart(s)
        signed == Len(t) > 0 /\ t[1] \in {"+", "-"}
        body == IF signed THEN Tail(t) ELSE t
    IN  IF Len(body) = 0 \/ ~IsDigit(body[1]) THEN NaN
        ELSE [nan |-> FALSE,
              val |-> IF signed /\ t[1] = "-" THEN 0 - DigitsValue(body, 0)
                      ELSE DigitsValue(body, 0)]

----------------------------------------------------------------------------
(* Command registry: COMMAND_DEFINITIONS, in declaration order *)

W_new == <<"n", "e", "w">>
W_mkdir == <<"m", "k", "d", "i", "r">>
W_cd == <<"c", "d">>
W_pwd == <<"p", "w", "d">>
W_list == <<"l", "i", "s", "t">>
W_open == <<"o", "p", "e", "n">>
W_edit == <<"e", "d", "i", "t">>
W_delete == <<"d", "e", "l", "e", "t", "e">>
W_restore == <<"r", "e", "s", "t", "o", "r", "e">>
W_trash == <<"t", "r", "a", "s", "h">>
W_pin == <<"p", "i", "n">>
W_unpin == <<"u", "n", "p", "i", "n">>
W_rename == <<"r", "e", "n", "a", "m", "e">>
W_purge == <<"p", "u", "r", "g", "e">>
W_search == <<"s", "e", "a", "r", "c", "h">>
W_grep == <<"g", "r", "e", "p">>
W_tags == <<"t", "a", "g", "s">>
W_today == <<"t", "o", "d", "a", "y">>
W_export == <<"e", "x", "p", "o", "r", "t">>
W_import == <<"i", "m", "p", "o", "r", "t">>
W_config == <<"c", "o", "n", "f", "i", "g">>
W_clear == <<"c", "l", "e", "a", "r">>
W_version == <<"v", "e", "r", "s", "i", "o", "n">>
W_stats == <<"s", "t", "a", "t", "s">>
W_help == <<"h", "e", "l", "p">>

\* a registry in which the alias ls belongs to two commands
COMMAND_DEFINITIONS_shared ==
    <<
      [name |-> W_new, aliases |-> <<<<"l", "s">>>>],
      [name |-> W_list, aliases |-> <<<<"l", "s">>>>]
    >>

COMMAND_DEFINITIONS ==
    <<
      [name |-> W_new, aliases |-> <<<<"c", "r", "e", "a", "t", "e">>, <<"a", "d", "d">>, <<"t", "o", "u", "c", "h">>>>],
      [name |-> W_mkdir, aliases |-> <<<<"m", "d">>>>],
      [name |-> W_cd, aliases |-> <<<<"c", "h", "d", "i", "r">>>>],
      [name |-> W_pwd, aliases |-> <<>>],
      [name |-> W_list, aliases |-> <<<<"l", "s">>, <<"d", "i", "r">>, <<"l", "l">>>>],
      [name |-> W_open, aliases |-> <<<<"v", "i", "e", "w">>, <<"s", "h", "o", "w">>>>],
      [name |-> W_edit, aliases |-> <<<<"e">>>>],
      [name |-> W_delete, aliases |-> <<<<"r", "m">>, <<"r", "e", "m", "o", "v", "e">>>>],
      [name |-> W_restore, aliases |-> <<<<"u", "n", "d", "o">>, <<"u", "n", "d", "e", "l", "e", "t", "e">>>>],
      [name |-> W_trash, aliases |-> <<<<"d", "e", "l", "e", "t", "e", "d">>>>],
      [name |-> W_pin, aliases |-> <<<<"s", "t", "a", "r">>, <<"f", "a", "v", "o", "r", "i", "t", "e">>>>],
      [name |-> W_unpin, aliases |-> <<<<"u", "n", "s", "t", "a", "r">>>>],
      [name |-> W_rename, aliases |-> <<<<"m", "v">>>>],
      [name |-> W_purge, aliases |-> <<>>],
      [name |-> W_search, aliases |-> <<<<"f", "i", "n", "d">>>>],
      [name |-> W_grep, aliases |-> <<<<"f", "i", "l", "t", "e", "r">>>>],
      [name |-> W_tags, aliases |-> <<>>],
      [name |-> W_today, aliases |-> <<<<"d", "a", "i", "l", "y">>>>],
      [name |-> W_export, aliases |-> <<<<"b", "a", "c", "k", "u", "p">>>>],
      [name |-> W_import, aliases |-> <<>>],
      [name |-> W_config, aliases |-> <<<<"s", "e", "t">>, <<"s", "e", "t", "t", "i", "n", "g", "s">>>>],
      [name |-> W_clear, aliases |-> <<<<"c", "l", "s">>>>],
      [name |-> W_version, aliases |-> <<<<"v">>>>],
      [name |-> W_stats, aliases |-> <<<<"i", "n", "f", "o">>>>],
      [name |-> W_help, aliases |-> <<<<"?">>, <<"h">>>>]
    >>

CommandNames == {COMMAND_DEFINITIONS[k].name : k \in DOMAIN COMMAND_DEFINITIONS}

SeqContains(seq, x) == \E k \in 1..Len(seq) : seq[k] = x

\* a resolution that hands every token back as it came
resolveAlias_identity(cmd) == cmd

\* resolveAlias: the first definition whose name or alias equals cmd
resolveAlias(cmd) ==
    LET hits == {k \in DOMAIN COMMAND_DEFINITIONS :
                    \/ COMMAND_DEFINITIONS[k].name = cmd
                    \/ SeqContains(COMMAND_DEFINITIONS[k].aliases, cmd)}
    IN  IF hits = {} THEN cmd
        ELSE COMMAND_DEFINITIONS[CHOOSE k \in hits : \A j \in hits : k <= j].name

\* findSimilarCommand: the positional distance of two words
Distance(cmd, word) ==
    LET minLen == IF Len(cmd) < Len(word) THEN Len(cmd) ELSE Len(word)
        maxLen == IF Len(cmd) < Len(word) THEN Len(word) ELSE Len(cmd)
    IN  Cardinality({i \in 1..minLen : cmd[i] # word[i]}) + (maxLen - minLen)

\* a findSimilarCommand that looks for the nearest command before it looks
\* for a prefix
findSimilarCommand_nearestFirst(input) ==
    LET lowerInput == toLowerCase(input)
        D == DOMAIN COMMAND_DEFINITIONS
        name(k) == COMMAND_DEFINITIONS[k].name
        byPrefix == {k \in D : \/ startsWith(name(k), lowerInput)
                               \/ startsWith(lowerInput, name(k))}
        near == {k \in D : Distance(name(k), lowerInput) <= 2}
        best == CHOOSE k \in near :
                    \A j \in near :
                        \/ Distance(name(k), lowerInput) < Distance(name(j), lowerInput)
                        \/ /\ Distance(name(k), lowerInput) = Distance(name(j), lowerInput)
                           /\ k <= j
    IN  IF near # {} THEN name(best)
        ELSE IF byPrefix # {}
        THEN name(CHOOSE k \in byPrefix : \A j \in byPrefix : k <= j)
        ELSE <<>>

\* findSimilarCommand: <<>> stands for null
findSimilarCommand(input) ==
    LET lowerInput == toLowerCase(input)
        D == DOMAIN COMMAND_DEFINITIONS
        name(k) == COMMAND_DEFINITIONS[k].name
        byAlias == {k \in D : SeqContains(COMMAND_DEFINITIONS[k].aliases, lowerInput)}
        byPrefix == {k \in D : \/ startsWith(name(k), lowerInput)
                               \/ startsWith(lowerInput, name(k))}
        firstPrefix == IF byPrefix = {} THEN Len(COMMAND_DEFINITIONS) + 1
                       ELSE CHOOSE k \in byPrefix : \A j \in byPrefix : k <= j
        \* candidates scanned before the loop returns on a prefix match
        scanned == {k \in D : k < firstPrefix /\ Distance(name(k), lowerInput) <= 2}
        best == CHOOSE k \in scanned :
                    \A j \in scanned :
                        \/ Distance(name(k), lowerInput) < Distance(name(j), lowerInput)
                        \/ /\ Distance(name(k), lowerInput) = Distance(name(j), lowerInput)
                           /\ k <= j
    IN  IF byAlias # {} THEN name(CHOOSE k \in byAlias : \A j \in byAlias : k <= j)
        ELSE IF byPrefix # {} THEN name(firstPrefix)
        ELSE IF scanned # {} THEN name(best)
        ELSE <<>>

----------------------------------------------------------------------------
(* Message texts of the dispatcher and the session *)

MSG_TOO_LONG ==
    <<"I", "n", "p", "u", "t", " ", "t", "o", "o", " ", "l", "o", "n", "g",
      " ", "(", "m", "a", "x", " ", "1", "0", "0", "0", " ", "c", "h", "a",
      "r", "a", "c", "t", "e", "r", "s", ")">>
MSG_INVALID_FORMAT ==
    <<"I", "n", "v", "a", "l", "i", "d", " ", "c", "o", "m", "m", "a", "n",
      "d", " ", "f", "o", "r", "m", "a", "t", ":", " ">>
MSG_UNKNOWN ==
    <<"U", "n", "k", "n", "o", "w", "n", " ", "c", "o", "m", "m", "a", "n",
      "d", ":", " ", "U+0060">>
MSG_DID_YOU_MEAN ==
    <<"D", "i", "d", " ", "y", "o", "u", " ", "m", "e", "a", "n", ":", " ",
      "U+0060">>
MSG_BACKTICK_Q ==
    <<"U+0060", "?">>
MSG_TYPE_HELP ==
    <<"T", "y", "p", "e", " ", "\"", "h", "e", "l", "p", "\"", " ", "f", "o",
      "r", " ", "a", "v", "a", "i", "l", "a", "b", "l", "e", " ", "c", "o",
      "m", "m", "a", "n", "d", "s">>
MSG_SHELL_ERROR ==
    <<"S", "h", "e", "l", "l", " ", "E", "r", "r", "o", "r", ":", " ">>
MSG_ERROR ==
    <<"E", "r", "r", "o", "r", ":", " ">>
MSG_UNTITLED ==
    <<"U", "n", "t", "i", "t", "l", "e", "d">>
MSG_MISSING_TITLE ==
    <<"M", "i", "s", "s", "i", "n", "g", " ", "t", "i", "t", "l", "e">>
MSG_NEW_USAGE ==
    <<"U", "s", "a", "g", "e", ":", " ", "n", "e", "w", " ", "\"", "M", "y",
      " ", "N", "o", "t", "e", " ", "T", "i", "t", "l", "e", "\"">>
MSG_NEW_EXAMPLE ==
    <<"E", "x", "a", "m", "p", "l", "e", ":", " ", "n", "e", "w", " ", "\"",
      "P", "r", "o", "j", "e", "c", "t", " ", "I", "d", "e", "a", "s", "\"">>
MSG_NOTE_CREATED ==
    <<"U+00E2", "U+0153", "U+201C", " ", "N", "o", "t", "e", " ", "c", "r", "e", "a", "t", "e",
      "d", " ", "(", "i", "d", ":", " ">>
MSG_OPENING_EDITOR ==
    <<" ", " ", "O", "p", "e", "n", "i", "n", "g", " ", "e", "d", "i", "t",
      "o", "r", ".", ".", ".">>
MSG_EMPTY ==
    <<"(", "e", "m", "p", "t", "y", ")">>
MSG_TOTAL ==
    <<"T", "o", "t", "a", "l", ":", " ">>
MSG_ITEMS ==
    <<" ", "i", "t", "e", "m", "(", "s", ")">>
MSG_MISSING_DIR ==
    <<"M", "i", "s", "s", "i", "n", "g", " ", "d", "i", "r", "e", "c", "t",
      "o", "r", "y", " ", "n", "a", "m", "e">>
MSG_DIR_CREATED_1 ==
    <<"U+00E2", "U+0153", "U+201C", " ", "D", "i", "r", "e", "c", "t", "o", "r", "y", " ", "\"">>
MSG_DIR_CREATED_2 ==
    <<"\"", " ", "c", "r", "e", "a", "t", "e", "d">>
MSG_MKDIR_FAILED ==
    <<"F", "a", "i", "l", "e", "d", " ", "t", "o", " ", "c", "r", "e", "a",
      "t", "e", " ", "d", "i", "r", "e", "c", "t", "o", "r", "y", ":", " ">>
MSG_CD ==
    <<"c", "d", ":", " ">>
MSG_NO_SUCH_DIR ==
    <<":", " ", "N", "o", " ", "s", "u", "c", "h", " ", "d", "i", "r", "e",
      "c", "t", "o", "r", "y">>
MSG_MISSING_ID ==
    <<"M", "i", "s", "s", "i", "n", "g", " ", "n", "o", "t", "e", " ", "I",
      "D">>
MSG_INVALID_ID ==
    <<"I", "n", "v", "a", "l", "i", "d", " ", "n", "o", "t", "e", " ", "I",
      "D">>
MSG_NOTE_HASH ==
    <<"N", "o", "t", "e", " ", "#">>
MSG_NOT_FOUND ==
    <<" ", "n", "o", "t", " ", "f", "o", "u", "n", "d">>
MSG_NOT_FOUND_OR_DELETED ==
    <<" ", "n", "o", "t", " ", "f", "o", "u", "n", "d", " ", "o", "r", " ",
      "a", "l", "r", "e", "a", "d", "y", " ", "d", "e", "l", "e", "t", "e",
      "d">>
MSG_NOT_IN_TRASH ==
    <<" ", "n", "o", "t", " ", "f", "o", "u", "n", "d", " ", "i", "n", " ",
      "t", "r", "a", "s", "h">>
MSG_DELETE_USAGE ==
    <<"U", "s", "a", "g", "e", ":", " ", "d", "e", "l", "e", "t", "e", " ",
      "<", "i", "d", ">">>
MSG_DELETE_EXAMPLE ==
    <<"E", "x", "a", "m", "p", "l", "e", ":", " ", "d", "e", "l", "e", "t",
      "e", " ", "1">>
MSG_DELETED_1 ==
    <<"U+00E2", "U+0153", "U+201C", " ", "N", "o", "t", "e", " ", "#">>
MSG_DELETED_2 ==
    <<"\"", " ", "d", "e", "l", "e", "t", "e", "d">>
MSG_TYPE_RESTORE ==
    <<" ", " ", "T", "y", "p", "e", " ", "\"", "r", "e", "s", "t", "o", "r",
      "e", " ">>
MSG_TO_UNDO ==
    <<"\"", " ", "t", "o", " ", "u", "n", "d", "o">>
MSG_RESTORE_USAGE ==
    <<"U", "s", "a", "g", "e", ":", " ", "r", "e", "s", "t", "o", "r", "e",
      " ", "<", "i", "d", ">">>
MSG_TRASH_TIP ==
    <<"T", "i", "p", ":", " ", "U", "s", "e", " ", "\"", "t", "r", "a", "s",
      "h", "\"", " ", "t", "o", " ", "s", "e", "e", " ", "d", "e", "l", "e",
      "t", "e", "d", " ", "n", "o", "t", "e", "s">>
MSG_RESTORED ==
    <<" ", "r", "e", "s", "t", "o", "r", "e", "d">>
MSG_ALREADY_PINNED ==
    <<" ", "i", "s", " ", "a", "l", "r", "e", "a", "d", "y", " ", "p", "i",
      "n", "n", "e", "d">>
MSG_NOT_PINNED ==
    <<" ", "i", "s", " ", "n", "o", "t", " ", "p", "i", "n", "n", "e", "d">>
MSG_PINNED ==
    <<"U+00E2", "U+0153", "U+201C", " ", "P", "i", "n", "n", "e", "d", " ", "n", "o", "t", "e",
      " ", "#">>
MSG_UNPINNED ==
    <<"U+00E2", "U+0153", "U+201C", " ", "U", "n", "p", "i", "n", "n", "e", "d", " ", "n", "o",
      "t", "e", " ", "#">>
MSG_MISSING_PATTERN ==
    <<"M", "i", "s", "s", "i", "n", "g", " ", "p", "a", "t", "t", "e", "r",
      "n">>
MSG_GREP_NO_INPUT ==
    <<"g", "r", "e", "p", ":", " ", "n", "o", " ", "i", "n", "p", "u", "t",
      " ", "p", "r", "o", "v", "i", "d", "e", "d", " ", "(", "p", "i", "p",
      "e", " ", "o", "n", "l", "y", ")">>
MSG_PURGE_USAGE ==
    <<"U", "s", "a", "g", "e", ":", " ", "p", "u", "r", "g", "e", " ", "<",
      "i", "d", ">">>
MSG_IS_NOT_IN_TRASH ==
    <<" ", "i", "s", " ", "n", "o", "t", " ", "i", "n", " ", "t", "r", "a",
      "s", "h">>
MSG_DELETE_FIRST ==
    <<"D", "e", "l", "e", "t", "e", " ", "i", "t", " ", "f", "i", "r", "s",
      "t", " ", "w", "i", "t", "h", ":", " ", "d", "e", "l", "e", "t", "e",
      " ", "<", "i", "d", ">">>
MSG_PERMANENTLY_DELETED ==
    <<" ", "p", "e", "r", "m", "a", "n", "e", "n", "t", "l", "y", " ", "d",
      "e", "l", "e", "t", "e", "d">>
MSG_CANNOT_UNDO ==
    <<" ", " ", "T", "h", "i", "s", " ", "c", "a", "n", "n", "o", "t", " ",
      "b", "e", " ", "u", "n", "d", "o", "n", "e">>
MSG_EDIT_USAGE ==
    <<"U", "s", "a", "g", "e", ":", " ", "e", "d", "i", "t", " ", "<", "i",
      "d", ">">>
MSG_EDIT_EXAMPLE ==
    <<"E", "x", "a", "m", "p", "l", "e", ":", " ", "e", "d", "i", "t", " ",
      "1">>
MSG_OPENING_FOR ==
    <<"O", "p", "e", "n", "i", "n", "g", " ", "e", "d", "i", "t", "o", "r",
      " ", "f", "o", "r", " ", "#">>
MSG_REGEX_ERROR ==
    <<"I", "n", "v", "a", "l", "i", "d", " ", "r", "e", "g", "u", "l", "a",
      "r", " ", "e", "x", "p", "r", "e", "s", "s", "i", "o", "n">>
MSG_INVALID_TITLE ==
    <<"I", "n", "v", "a", "l", "i", "d", " ", "t", "i", "t", "l", "e">>
MSG_INVALID_FOLDER ==
    <<"E", "r", "r", "o", "r", ":", " ", "I", "n", "v", "a", "l", "i", "d",
      " ", "f", "o", "l", "d", "e", "r", " ", "n", "a", "m", "e">>
MSG_PIN_ICON ==
    <<"U+00F0", "U+0178", "U+201C", "U+0152", " ">>
MSG_ELLIPSIS ==
    <<".", ".", ".">>
MSG_VERSION_BANNER ==
    <<"\n", " ", " ", "_", "_", "_", "_", "_", "_", "_", "_", " ", " ", " ",
      " ", "_", "_", " ", " ", "_", "_", "_", "_", "_", "_", " ", " ", "_",
      "_", " ", " ", "_", "_", " ", "\n", " ", "/", " ", "_", "_", "_", "_",
      "/", " ", "/", " ", " ", " ", "/", " ", "/", " ", "/", " ", "/", " ",
      "_", "_", " ", "\\", "/", " ", "/", " ", "/", " ", "/", " ", "\n", "/",
      " ", "/", " ", "_", "_", "/", " ", "/", " ", " ", " ", "/", " ", "/",
      "_", "/", " ", "/", " ", "/", "_", "/", " ", "/", " ", "/", "_", "/",
      " ", "/", " ", " ", "\n", "/", " ", "/", "_", "/", " ", "/", " ", "/",
      "_", "_", "_", "/", " ", "_", "_", " ", " ", "/", " ", "_", "_", "_",
      "_", "/", " ", "_", "_", " ", " ", "/", " ", " ", " ", "\n", "\\", "_",
      "_", "_", "_", "/", "_", "_", "_", "_", "_", "/", "_", "/", " ", "/",
      "_", "/", "_", "/", " ", " ", " ", "/", "_", "/", " ", "/", "_", "/",
      " ", " ", " ", " ", "v", "2", ".", "1", ".", "0", "\n">>
MSG_VERSION_TAGLINE ==
    <<"T", "e", "r", "m", "i", "n", "a", "l", "-", "s", "t", "y", "l", "e",
      " ", "n", "o", "t", "e", "-", "t", "a", "k", "i", "n", "g", " ",
      "U+00E2", "U+20AC", "U+00A2", " ", "L", "o", "c", "a", "l", "-", "f", "i", "r", "s", "t",
      " ", "U+00E2", "U+20AC", "U+00A2", " ", "O", "f", "f", "l", "i", "n", "e">>
MSG_VERSION_AUTHOR ==
    <<"C", "r", "e", "a", "t", "e", "d", " ", "b", "y", " ", "A", "n", "e",
      "e", "s", "h", " ", "V", " ", "R", "a", "o">>
MSG_EXPORT ==
    <<"I", "n", "i", "t", "i", "a", "t", "i", "n", "g", " ", "e", "x", "p",
      "o", "r", "t", ".", ".", ".">>
MSG_IMPORT_1 ==
    <<"S", "e", "l", "e", "c", "t", " ", "a", " ", "J", "S", "O", "N", " ",
      "f", "i", "l", "e", " ", "t", "o", " ", "i", "m", "p", "o", "r", "t",
      ".", ".", ".">>
MSG_IMPORT_2 ==
    <<"N", "o", "t", "e", ":", " ", "D", "u", "p", "l", "i", "c", "a", "t",
      "e", " ", "t", "i", "t", "l", "e", "s", " ", "w", "i", "l", "l", " ",
      "b", "e", " ", "r", "e", "n", "a", "m", "e", "d", " ", "a", "u", "t",
      "o", "m", "a", "t", "i", "c", "a", "l", "l", "y">>
MSG_PROMPT_SEP ==
    <<" ", "$", " ">>
MSG_HOME ==
    <<"~">>
MSG_HOME_SLASH ==
    <<"~", "/">>
MSG_UNKNOWN_PATH ==
    <<"?">>
MSG_LT ==
    <<"&", "l", "t", ";">>
MSG_GT ==
    <<"&", "g", "t", ";">>
MSG_MARK_OPEN ==
    <<"U+00C2", "U+00BB">>
MSG_MARK_CLOSE ==
    <<"U+00C2", "U+00AB">>
MSG_TRASH_EMPTY ==
    <<"T", "r", "a", "s", "h", " ", "i", "s", " ", "e", "m", "p", "t", "y",
      ".">>
MSG_TRASH_HEAD ==
    <<"U+00E2", "U+201D", "U+20AC", "U+00E2", "U+201D", "U+20AC", "U+00E2",
      "U+201D", "U+20AC", " ", "T", "r", "a", "s", "h", " ", "(">>
MSG_NOTES_TAIL ==
    <<" ", "n", "o", "t", "e", "s", ")", " ", "U+00E2", "U+201D", "U+20AC",
      "U+00E2", "U+201D", "U+20AC", "U+00E2", "U+201D", "U+20AC">>
MSG_DELETED_AT ==
    <<" ", " ", "[", "d", "e", "l", "e", "t", "e", "d", " ">>
MSG_TRASH_RECOVER ==
    <<"U", "s", "e", " ", "\"", "r", "e", "s", "t", "o", "r", "e", " ", "<",
      "i", "d", ">", "\"", " ", "t", "o", " ", "r", "e", "c", "o", "v", "e",
      "r", " ", "a", " ", "n", "o", "t", "e">>
MSG_MISSING_QUERY ==
    <<"M", "i", "s", "s", "i", "n", "g", " ", "s", "e", "a", "r", "c", "h",
      " ", "q", "u", "e", "r", "y">>
MSG_SEARCH_USAGE ==
    <<"U", "s", "a", "g", "e", ":", " ", "s", "e", "a", "r", "c", "h", " ",
      "<", "q", "u", "e", "r", "y", ">">>
MSG_SEARCH_EXAMPLE ==
    <<"E", "x", "a", "m", "p", "l", "e", ":", " ", "s", "e", "a", "r", "c",
      "h", " ", "j", "a", "v", "a", "s", "c", "r", "i", "p", "t">>
MSG_NO_RESULTS ==
    <<"N", "o", " ", "r", "e", "s", "u", "l", "t", "s", " ", "f", "o", "r",
      " ", "\"">>
MSG_SEARCH_LOOKS ==
    <<"S", "e", "a", "r", "c", "h", " ", "l", "o", "o", "k", "s", " ", "i",
      "n", " ", "t", "i", "t", "l", "e", "s", ",", " ", "b", "o", "d", "y",
      ",", " ", "a", "n", "d", " ", "t", "a", "g", "s">>
MSG_SEARCH_HEAD ==
    <<"U+00E2", "U+201D", "U+20AC", "U+00E2", "U+201D", "U+20AC", "U+00E2",
      "U+201D", "U+20AC", " ", "S", "e", "a", "r", "c", "h", ":", " ", "\"">>
MSG_QUOTE_PAREN ==
    <<"\"", " ", "(">>
MSG_RESULTS_TAIL ==
    <<" ", "r", "e", "s", "u", "l", "t", "s", ")", " ", "U+00E2", "U+201D",
      "U+20AC", "U+00E2", "U+201D", "U+20AC", "U+00E2", "U+201D", "U+20AC">>
MSG_MATCHES_MARKED ==
    <<"M", "a", "t", "c", "h", "e", "s", " ", "m", "a", "r", "k", "e", "d",
      " ", "w", "i", "t", "h", " ", "U+00C2", "U+00BB", " ", "U+00C2",
      "U+00AB">>
MSG_NO_NOTES_WITH_TAG ==
    <<"N", "o", " ", "n", "o", "t", "e", "s", " ", "w", "i", "t", "h", " ",
      "t", "a", "g", " ", "\"">>
MSG_TAG_HEAD ==
    <<"U+00E2", "U+201D", "U+20AC", "U+00E2", "U+201D", "U+20AC", "U+00E2",
      "U+201D", "U+20AC", " ", "T", "a", "g", ":", " ">>
MSG_PAREN ==
    <<" ", "(">>
MSG_NO_TAGS ==
    <<"N", "o", " ", "t", "a", "g", "s", " ", "y", "e", "t", ".">>
MSG_ADD_TAGS ==
    <<"A", "d", "d", " ", "t", "a", "g", "s", " ", "w", "h", "e", "n", " ",
      "e", "d", "i", "t", "i", "n", "g", " ", "n", "o", "t", "e", "s", " ",
      "w", "i", "t", "h", " ", "C", "t", "r", "l", "+", "T">>
MSG_ALL_TAGS ==
    <<"U+00E2", "U+201D", "U+20AC", "U+00E2", "U+201D", "U+20AC", "U+00E2",
      "U+201D", "U+20AC", " ", "A", "l", "l", " ", "T", "a", "g", "s", " ",
      "U+00E2", "U+201D", "U+20AC", "U+00E2", "U+201D", "U+20AC", "U+00E2",
      "U+201D", "U+20AC">>
MSG_TAGS_FILTER ==
    <<"U", "s", "e", " ", "\"", "t", "a", "g", "s", " ", "<", "n", "a", "m",
      "e", ">", "\"", " ", "t", "o", " ", "f", "i", "l", "t", "e", "r", " ",
      "b", "y", " ", "t", "a", "g">>
MSG_OPENING_TODAY ==
    <<"O", "p", "e", "n", "i", "n", "g", " ", "t", "o", "d", "a", "y", "'",
      "s", " ", "n", "o", "t", "e", " ", "(", "#">>
MSG_TODAY_TAIL ==
    <<")", ".", ".", ".">>
MSG_RENAME_FORMAT ==
    <<"I", "n", "v", "a", "l", "i", "d", " ", "f", "o", "r", "m", "a", "t">>
MSG_RENAME_USAGE ==
    <<"U", "s", "a", "g", "e", ":", " ", "r", "e", "n", "a", "m", "e", " ",
      "<", "i", "d", ">", " ", "\"", "n", "e", "w", " ", "t", "i", "t", "l",
      "e", "\"">>
MSG_RENAME_EXAMPLE ==
    <<"E", "x", "a", "m", "p", "l", "e", ":", " ", "r", "e", "n", "a", "m",
      "e", " ", "1", " ", "\"", "B", "e", "t", "t", "e", "r", " ", "T", "i",
      "t", "l", "e", "\"">>
MSG_TITLE_EMPTY ==
    <<"T", "i", "t", "l", "e", " ", "c", "a", "n", "n", "o", "t", " ", "b",
      "e", " ", "e", "m", "p", "t", "y">>
MSG_RENAMED_HEAD ==
    <<"U+00E2", "U+0153", "U+201C", " ", "N", "o", "t", "e", " ", "#">>
MSG_RENAMED_TAIL ==
    <<" ", "r", "e", "n", "a", "m", "e", "d">>
MSG_RENAME_FROM ==
    <<" ", " ", "\"">>
MSG_RENAME_TO ==
    <<"\"", " ", "U+00E2", "U+2020", "U+2019", " ", "\"">>
MSG_CONFIG_HEAD ==
    <<"U+00E2", "U+201D", "U+20AC", "U+00E2", "U+201D", "U+20AC", "U+00E2",
      "U+201D", "U+20AC", " ", "C", "o", "n", "f", "i", "g", "u", "r", "a",
      "t", "i", "o", "n", " ", "U+00E2", "U+201D", "U+20AC", "U+00E2",
      "U+201D", "U+20AC", "U+00E2", "U+201D", "U+20AC">>
MSG_EQUALS ==
    <<" ", "=", " ">>
MSG_CONFIG_USAGE ==
    <<"U", "s", "a", "g", "e", ":", " ", "c", "o", "n", "f", "i", "g", " ",
      "<", "k", "e", "y", ">", " ", "<", "v", "a", "l", "u", "e", ">">>
MSG_CONFIG_EXAMPLE ==
    <<"E", "x", "a", "m", "p", "l", "e", ":", " ", "c", "o", "n", "f", "i",
      "g", " ", "t", "h", "e", "m", "e", " ", "d", "r", "a", "c", "u", "l",
      "a">>
MSG_AVAILABLE_THEMES ==
    <<"A", "v", "a", "i", "l", "a", "b", "l", "e", " ", "t", "h", "e", "m",
      "e", "s", ":", " ">>
MSG_NOT_SET ==
    <<"(", "n", "o", "t", " ", "s", "e", "t", ")">>
MSG_UNKNOWN_KEY ==
    <<"U", "n", "k", "n", "o", "w", "n", " ", "c", "o", "n", "f", "i", "g",
      " ", "k", "e", "y", ":", " ">>
MSG_VALID_KEYS ==
    <<"V", "a", "l", "i", "d", " ", "k", "e", "y", "s", ":", " ">>
MSG_INVALID_THEME ==
    <<"I", "n", "v", "a", "l", "i", "d", " ", "t", "h", "e", "m", "e", ":",
      " ">>
MSG_INVALID_VALUE ==
    <<"I", "n", "v", "a", "l", "i", "d", " ", "v", "a", "l", "u", "e", " ",
      "f", "o", "r", " ">>
MSG_TRUE_OR_FALSE ==
    <<"U", "s", "e", ":", " ", "t", "r", "u", "e", " ", "o", "r", " ", "f",
      "a", "l", "s", "e">>
MSG_NUMBER_RANGE ==
    <<"U", "s", "e", " ", "a", " ", "n", "u", "m", "b", "e", "r", " ", "b",
      "e", "t", "w", "e", "e", "n", " ", "0", " ", "a", "n", "d", " ", "1">>
MSG_CHECK ==
    <<"U+00E2", "U+0153", "U+201C", " ">>
MSG_THEME_UPDATED ==
    <<"T", "h", "e", "m", "e", " ", "u", "p", "d", "a", "t", "e", "d", ".",
      " ", "C", "h", "a", "n", "g", "e", "s", " ", "a", "p", "p", "l", "y",
      " ", "i", "m", "m", "e", "d", "i", "a", "t", "e", "l", "y", ".">>
MSG_DAILY ==
    <<"D", "a", "i", "l", "y", ":", " ">>
MSG_DAILY_TAG ==
    <<"d", "a", "i", "l", "y">>
MSG_NOTE_HEAD ==
    <<"U+00E2", "U+2022", "U+00AD", "U+00E2", "U+201D", "U+20AC", "U+00E2",
      "U+201D", "U+20AC", "U+00E2", "U+201D", "U+20AC", " ", "#">>
MSG_NOTE_TAIL ==
    <<" ", "U+00E2", "U+201D", "U+20AC", "U+00E2", "U+201D", "U+20AC",
      "U+00E2", "U+201D", "U+20AC", "U+00E2", "U+2022", "U+00AE">>
MSG_CREATED ==
    <<"C", "r", "e", "a", "t", "e", "d", ":", " ">>
MSG_UPDATED ==
    <<"U", "p", "d", "a", "t", "e", "d", ":", " ">>
MSG_TAGS ==
    <<"T", "a", "g", "s", ":", " ">>
MSG_MISSING_ID_OR_TITLE ==
    <<"M", "i", "s", "s", "i", "n", "g", " ", "n", "o", "t", "e", " ", "I",
      "D", " ", "o", "r", " ", "t", "i", "t", "l", "e">>
MSG_OPEN_USAGE ==
    <<"U", "s", "a", "g", "e", ":", " ", "o", "p", "e", "n", " ", "<", "i",
      "d", ">", " ", "o", "r", " ", "o", "p", "e", "n", " ", "\"", "t", "i",
      "t", "l", "e", "\"">>
MSG_OPEN_EXAMPLE ==
    <<"E", "x", "a", "m", "p", "l", "e", ":", " ", "o", "p", "e", "n", " ",
      "1">>
MSG_NO_NOTE_MATCHING ==
    <<"N", "o", " ", "n", "o", "t", "e", " ", "f", "o", "u", "n", "d", " ",
      "m", "a", "t", "c", "h", "i", "n", "g", " ", "\"">>
MSG_MULTIPLE_MATCH ==
    <<"M", "u", "l", "t", "i", "p", "l", "e", " ", "n", "o", "t", "e", "s",
      " ", "m", "a", "t", "c", "h", " ", "\"">>
MSG_QUOTE_COLON ==
    <<"\"", ":">>
MSG_MATCH_HASH ==
    <<" ", " ", "#">>
MSG_USE_ID ==
    <<"U", "s", "e", " ", "t", "h", "e", " ", "n", "o", "t", "e", " ", "I",
      "D", " ", "t", "o", " ", "o", "p", "e", "n", ":", " ", "o", "p", "e",
      "n", " ", "<", "i", "d", ">">>
MSG_EPOCH ==
    <<"J", "a", "n", " ", "1", ",", " ", "1", "2", ":", "0", "0", " ", "A",
      "M">>

----------------------------------------------------------------------------
(* Store: the Dexie tables and the operations of the database module *)

None == [none |-> TRUE]
NoTime == -1        \* an absent timestamp (deletedAt of a live note)

\* the elements of a set of integers in ascending order (table order)
RECURSIVE Ascending(_)
Ascending(S) ==
    IF S = {} THEN <<>>
    ELSE LET m == CHOOSE x \in S : \A y \in S : x <= y
         IN  <<m>> \o Ascending(S \ {m})

\* the tables as one value, for the operations below
Store ==
    [notes |-> notes, folders |-> folders,
     recentlyDeleted |-> recentlyDeleted,
     nextNoteId |-> nextNoteId, nextFolderId |-> nextFolderId,
     config |-> config]

EmptyStore ==
    [notes |-> <<>>, folders |-> <<>>, recentlyDeleted |-> <<>>,
     nextNoteId |-> 1, nextFolderId |-> 1, config |-> <<>>]

\* sanitizeText: "<" and ">" become entities
sanitizeText(text) ==
    IF \A i \in 1..Len(text) : text[i] \notin {"<", ">"} THEN text
    ELSE Cat([i \in 1..Len(text) |->
                IF text[i] = "<" THEN MSG_LT
                ELSE IF text[i] = ">" THEN MSG_GT
                ELSE <<text[i]>>])

\* createFolder; threw: the operation raised an Error with message msg
createFolder(st, name, parentId, now) ==
    LET safeName == sanitizeText(sliceTo(trim(name), MAX_FOLDER_NAME))
        id == st.nextFolderId
        folder == [id |-> id, name |-> safeName, parentId |-> parentId,
                   createdAt |-> now]
    IN  IF safeName = <<>>
        THEN [st |-> st, ret |-> None, threw |-> TRUE,
              msg |-> MSG_INVALID_FOLDER]
        ELSE [st |-> [st EXCEPT !.folders = (id :> folder) @@ st.folders,
                                !.nextFolderId = id + 1],
              ret |-> folder, threw |-> FALSE, msg |-> <<>>]

\* getFolder: None stands for undefined
getFolder(st, id) ==
    IF id \in DOMAIN st.folders THEN st.folders[id] ELSE None

\* getFolderContents: the live notes and the folders of one directory, in
\* primary-key order; at root everything with a falsy parentId
getFolderContents(st, parentId) ==
    LET noteIds == {id \in DOMAIN st.notes :
                      /\ ~st.notes[id].deleted
                      /\ st.notes[id].parentId = parentId}
        folderIds == {id \in DOMAIN st.folders :
                        st.folders[id].parentId = parentId}
    IN  [notes |-> [k \in 1..Cardinality(noteIds) |->
                       st.notes[Ascending(noteIds)[k]]],
         folders |-> [k \in 1..Cardinality(folderIds) |->
                       st.folders[Ascending(folderIds)[k]]]]

\* createNote
createNote(st, title, body, tags, parentId, now) ==
    LET safeTitle == sanitizeText(sliceTo(title, MAX_TITLE))
        safeTags == [k \in 1..Len(tags) |-> sanitizeText(tags[k])]
        id == st.nextNoteId
        note == [id |-> id, title |-> safeTitle, body |-> sanitizeText(body),
                 tags |-> safeTags, createdAt |-> now, updatedAt |-> now,
                 deleted |-> FALSE, deletedAt |-> NoTime, pinned |-> FALSE,
                 parentId |-> parentId]
    IN  IF title = <<>>
        THEN [st |-> st, ret |-> None, threw |-> TRUE,
              msg |-> MSG_INVALID_TITLE]
        ELSE [st |-> [st EXCEPT !.notes = (id :> note) @@ st.notes,
                                !.nextNoteId = id + 1],
              ret |-> note, threw |-> FALSE, msg |-> <<>>]

\* getNote: None stands for undefined
getNote(st, id) ==
    IF id \in DOMAIN st.notes THEN st.notes[id] ELSE None

\* getNoteTitles: id and title of the notes that are not deleted, in
\* primary-key order
getNoteTitles(st) ==
    LET ids == Ascending({id \in DOMAIN st.notes : ~st.notes[id].deleted})
    IN  [k \in 1..Len(ids) |-> [id |-> ids[k], title |-> st.notes[ids[k]].title]]

\* togglePin: ret is the new pinned state, or FALSE for an unknown id
togglePin(st, id) ==
    IF id \notin DOMAIN st.notes THEN [st |-> st, ret |-> FALSE]
    ELSE [st |-> [st EXCEPT !.notes[id].pinned = ~st.notes[id].pinned],
          ret |-> ~st.notes[id].pinned]

\* a deleteNote that takes a fresh snapshot of a note already deleted
deleteNote_again(st, id, now) ==
    IF id \notin DOMAIN st.notes
    THEN [st |-> st, success |-> FALSE, deletedNote |-> None]
    ELSE LET note == st.notes[id]
             deletedNote ==
                 [noteId |-> id, title |-> note.title, body |-> note.body,
                  tags |-> note.tags, createdAt |-> note.createdAt,
                  updatedAt |-> note.updatedAt, deletedAt |-> now]
         IN  [st |-> [st EXCEPT
                        !.recentlyDeleted = Append(st.recentlyDeleted, deletedNote),
                        !.notes[id].deleted = TRUE,
                        !.notes[id].deletedAt = now,
                        !.notes[id].updatedAt = now],
              success |-> TRUE, deletedNote |-> deletedNote]

\* deleteNote: soft delete, with a snapshot kept for undo
deleteNote(st, id, now) ==
    IF id \notin DOMAIN st.notes \/ st.notes[id].deleted
    THEN [st |-> st, success |-> FALSE, deletedNote |-> None]
    ELSE LET note == st.notes[id]
             deletedNote ==
                 [noteId |-> id, title |-> note.title, body |-> note.body,
                  tags |-> note.tags, createdAt |-> note.createdAt,
                  updatedAt |-> note.updatedAt, deletedAt |-> now]
         IN  [st |-> [st EXCEPT
                        !.recentlyDeleted = Append(st.recentlyDeleted, deletedNote),
                        !.notes[id].deleted = TRUE,
                        !.notes[id].deletedAt = now,
                        !.notes[id].updatedAt = now],
              success |-> TRUE, deletedNote |-> deletedNote]

\* undoDelete that leaves the snapshot in recentlyDeleted
undoDelete_keepsTrash(st, noteId, now) ==
    IF noteId \notin DOMAIN st.notes \/ ~st.notes[noteId].deleted
    THEN [st |-> st, ret |-> FALSE]
    ELSE [st |-> [st EXCEPT !.notes[noteId].deleted = FALSE,
                            !.notes[noteId].deletedAt = NoTime,
                            !.notes[noteId].updatedAt = now],
          ret |-> TRUE]

\* undoDelete: restore a soft-deleted note
undoDelete(st, noteId, now) ==
    IF noteId \notin DOMAIN st.notes \/ ~st.notes[noteId].deleted
    THEN [st |-> st, ret |-> FALSE]
    ELSE LET Other(d) == d.noteId # noteId
         IN  [st |-> [st EXCEPT
                        !.recentlyDeleted = SelectSeq(st.recentlyDeleted, Other),
                        !.notes[noteId].deleted = FALSE,
                        !.notes[noteId].deletedAt = NoTime,
                        !.notes[noteId].updatedAt = now],
              ret |-> TRUE]

\* purgeNote: the note and its snapshots are removed for good
purgeNote(st, noteId) ==
    LET Other(d) == d.noteId # noteId
    IN  [st |-> [st EXCEPT
                    !.recentlyDeleted = SelectSeq(st.recentlyDeleted, Other),
                    !.notes = [id \in DOMAIN st.notes \ {noteId} |->
                                  st.notes[id]]],
         ret |-> TRUE]

\* updateNote with a title: the title is cut and sanitized, updatedAt is
\* set; an unknown id changes nothing
updateNote(st, id, title, now) ==
    IF id \notin DOMAIN st.notes THEN st
    ELSE [st EXCEPT !.notes[id].title = sanitizeText(sliceTo(title, MAX_TITLE)),
                    !.notes[id].updatedAt = now]

\* getRecentlyDeleted: the snapshots, latest deletion first; the table is
\* filled in deletion order
getRecentlyDeleted(st) ==
    [k \in 1..Len(st.recentlyDeleted) |->
        st.recentlyDeleted[Len(st.recentlyDeleted) + 1 - k]]

\* listNotes(): the notes that are not deleted, in primary-key order
listNotes(st) ==
    LET ids == Ascending({id \in DOMAIN st.notes : ~st.notes[id].deleted})
    IN  [k \in 1..Len(ids) |-> st.notes[ids[k]]]

\* a search that also looks at deleted notes
searchNotes_withDeleted(st, query) ==
    LET ids == Ascending(DOMAIN st.notes)
        all == [k \in 1..Len(ids) |-> st.notes[ids[k]]]
    IN  SelectSeq(all, LAMBDA note :
                          includes(toLowerCase(note.title), toLowerCase(query)))

\* searchNotes: the live notes whose title, body or a tag holds the query,
\* letter case aside
searchNotes(st, query) ==
    LET lowerQuery == toLowerCase(query)
        Hit(note) ==
            \/ includes(toLowerCase(note.title), lowerQuery)
            \/ includes(toLowerCase(note.body), lowerQuery)
            \/ \E t \in 1..Len(note.tags) :
                  includes(toLowerCase(note.tags[t]), lowerQuery)
    IN  SelectSeq(listNotes(st), Hit)

\* getNotesByTag: the live notes that carry exactly this tag
getNotesByTag(st, tag) ==
    SelectSeq(listNotes(st), LAMBDA note : SeqContains(note.tags, tag))

\* getAllTags: the tags of the live notes with their counts, the highest
\* count first, tags of equal count in the order of first occurrence
getAllTags(st) ==
    LET occ == Cat([k \in 1..Len(listNotes(st)) |-> listNotes(st)[k].tags])
        firsts == Ascending({i \in 1..Len(occ) :
                                \A j \in 1..(i - 1) : occ[j] # occ[i]})
        Count(tag) == Cardinality({i \in 1..Len(occ) : occ[i] = tag})
        entries == [k \in 1..Len(firsts) |->
                      [tag |-> occ[firsts[k]], count |-> Count(occ[firsts[k]])]]
        Rank(k) == Cardinality({e \in 1..Len(entries) :
                      \/ entries[e].count > entries[k].count
                      \/ (entries[e].count = entries[k].count /\ e < k)}) + 1
    IN  [r \in 1..Len(entries) |->
            entries[CHOOSE k \in 1..Len(entries) : Rank(k) = r]]

\* toISOString().split("T")[0] of a timestamp in the first day of the epoch
ISODate(timestamp) ==
    <<"1", "9", "7", "0", "-", "0", "1", "-", "0", "1">>

\* getTodayNote: the first live note with the title of today, or None
getTodayNote(st, now) ==
    LET found == SelectSeq(listNotes(st), LAMBDA note :
                              note.title = MSG_DAILY \o ISODate(now))
    IN  IF Len(found) = 0 THEN None ELSE found[1]

\* a createOrGetTodayNote that does not look for the note of today
createOrGetTodayNote_always(st, now) ==
    createNote(st, MSG_DAILY \o ISODate(now), <<>>, <<MSG_DAILY_TAG>>,
               NoId, now)

\* createOrGetTodayNote
createOrGetTodayNote(st, now) ==
    IF getTodayNote(st, now) # None
    THEN [st |-> st, ret |-> getTodayNote(st, now), threw |-> FALSE,
          msg |-> <<>>]
    ELSE createNote(st, MSG_DAILY \o ISODate(now), <<>>, <<MSG_DAILY_TAG>>,
                    NoId, now)

K_theme ==
    <<"t", "h", "e", "m", "e">>
K_scanlines ==
    <<"s", "c", "a", "n", "l", "i", "n", "e", "s">>
K_autosave ==
    <<"a", "u", "t", "o", "s", "a", "v", "e">>
K_dateFormat ==
    <<"d", "a", "t", "e", "F", "o", "r", "m", "a", "t">>
K_crtEnabled ==
    <<"c", "r", "t", "E", "n", "a", "b", "l", "e", "d">>
K_glowIntensity ==
    <<"g", "l", "o", "w", "I", "n", "t", "e", "n", "s", "i", "t", "y">>
K_soundEnabled ==
    <<"s", "o", "u", "n", "d", "E", "n", "a", "b", "l", "e", "d">>
K_list ==
    <<"l", "i", "s", "t">>
V_true ==
    <<"t", "r", "u", "e">>
V_false ==
    <<"f", "a", "l", "s", "e">>
V_crt ==
    <<"c", "r", "t">>
V_short ==
    <<"s", "h", "o", "r", "t">>
T_amber ==
    <<"a", "m", "b", "e", "r">>
T_mono ==
    <<"m", "o", "n", "o">>
T_matrix ==
    <<"m", "a", "t", "r", "i", "x">>
T_solarized ==
    <<"s", "o", "l", "a", "r", "i", "z", "e", "d">>
T_dracula ==
    <<"d", "r", "a", "c", "u", "l", "a">>
T_nord ==
    <<"n", "o", "r", "d">>
T_cyberpunk ==
    <<"c", "y", "b", "e", "r", "p", "u", "n", "k">>

\* DEFAULT_CONFIG, in key order
DEFAULT_CONFIG ==
    <<[key |-> K_theme, value |-> V_crt],
      [key |-> K_scanlines, value |-> V_true],
      [key |-> K_autosave, value |-> V_true],
      [key |-> K_dateFormat, value |-> V_short]>>

AVAILABLE_THEMES ==
    <<V_crt, T_amber, T_mono, T_matrix, T_solarized, T_dracula, T_nord,
      T_cyberpunk>>

\* the rows of a key-value table that carry this key
RowsOf(rows, key) == SelectSeq(rows, LAMBDA r : r.key = key)

\* getConfig: the stored value, else the default, else the empty string
getConfig(st, key) ==
    IF Len(RowsOf(st.config, key)) > 0 THEN RowsOf(st.config, key)[1].value
    ELSE IF Len(RowsOf(DEFAULT_CONFIG, key)) > 0
    THEN RowsOf(DEFAULT_CONFIG, key)[1].value
    ELSE <<>>

\* setConfig: the first row of the key is updated, or a row is added
setConfig(st, key, value) ==
    IF Len(RowsOf(st.config, key)) > 0
    THEN LET first == CHOOSE k \in 1..Len(st.config) :
                         /\ st.config[k].key = key
                         /\ \A j \in 1..(k - 1) : st.config[j].key # key
         IN  [st EXCEPT !.config[first].value = value]
    ELSE [st EXCEPT !.config = Append(st.config, [key |-> key, value |-> value])]

\* getAllConfig: the defaults overridden by the stored rows, the default
\* keys first and the other keys in the order they were stored
getAllConfig(st) ==
    LET Stored(key) == RowsOf(st.config, key)
        defaults == [k \in 1..Len(DEFAULT_CONFIG) |->
                       IF Len(Stored(DEFAULT_CONFIG[k].key)) > 0
                       THEN [key |-> DEFAULT_CONFIG[k].key,
                             value |-> Stored(DEFAULT_CONFIG[k].key)[
                                          Len(Stored(DEFAULT_CONFIG[k].key))].value]
                       ELSE DEFAULT_CONFIG[k]]
        extraIdx == Ascending({i \in 1..Len(st.config) :
                       /\ Len(RowsOf(DEFAULT_CONFIG, st.config[i].key)) = 0
                       /\ \A j \in 1..(i - 1) :
                             st.config[j].key # st.config[i].key})
    IN  defaults \o [k \in 1..Len(extraIdx) |->
                       [key |-> st.config[extraIdx[k]].key,
                        value |-> Stored(st.config[extraIdx[k]].key)[
                                     Len(Stored(st.config[extraIdx[k]].key))].value]]

----------------------------------------------------------------------------
(* Dispatcher: output lines, results and the command handlers *)

NoAction == [type |-> "none"]
Line(type, content) == [type |-> type, content |-> content, action |-> NoAction]
ActionLine(type, content, action) ==
    [type |-> type, content |-> content, action |-> action]

\* a CommandResult with no flag set
Result(lines) ==
    [output |-> lines, openEditor |-> None, shouldClear |-> FALSE,
     triggerExport |-> FALSE, triggerImport |-> FALSE, pendingUndo |-> None]

\* what a handler leaves behind: its result, the store, and the argument
\* of setCurrentPath when the handler called it
\* threw: the handler raised an exception; escaped: it left parseAndExecute
NoSetPath == [called |-> FALSE, id |-> NoId]
SetPath(id) == [called |-> TRUE, id |-> id]
Outcome(res, st, setPath) ==
    [result |-> res, st |-> st, setPath |-> setPath, threw |-> FALSE,
     escaped |-> FALSE, message |-> <<>>]

\* a handler that raises an Error with this message, the store as it was
\* when the exception was raised
Thrown(message, st) ==
    [result |-> Result(<<>>), st |-> st, setPath |-> NoSetPath, threw |-> TRUE,
     escaped |-> TRUE, message |-> message]

\* a catch block that swallows the exception without an output line
Caught_silent(o) ==
    IF o.threw THEN [o EXCEPT !.escaped = FALSE] ELSE o

\* the catch block of parseAndExecute: one error line with the message
Caught(o) ==
    IF o.threw
    THEN [o EXCEPT !.result = Result(<<Line("error", MSG_ERROR \o o.message)>>),
                   !.escaped = FALSE]
    ELSE o

HasType(res, type) == \E k \in 1..Len(res.output) : res.output[k].type = type
CountType(res, type) ==
    Cardinality({k \in 1..Len(res.output) : res.output[k].type = type})

\* the match of /^"([^"]+)"$|^'([^']+)'$|^(.+)$/: the first non-empty
\* group, or <<>> when the text does not match
QuotedBy(s, q) ==
    /\ Len(s) >= 3
    /\ s[1] = q
    /\ s[Len(s)] = q
    /\ \A i \in 2..(Len(s) - 1) : s[i] # q
TitleMatch(argsStr) ==
    IF QuotedBy(argsStr, "\"") \/ QuotedBy(argsStr, "'")
    THEN SubSeq(argsStr, 2, Len(argsStr) - 1)
    ELSE IF Len(argsStr) > 0 /\ \A i \in 1..Len(argsStr) : argsStr[i] # "\n"
    THEN argsStr
    ELSE <<>>

\* formatNoteRow without a highlight query
formatNoteRow(note) ==
    LET id == padStart(IntToStr(note.id), ID_PAD)
        title == IF Len(note.title) > TITLE_PAD
                 THEN sliceTo(note.title, TITLE_CUT) \o MSG_ELLIPSIS
                 ELSE padEnd(note.title, TITLE_PAD)
        tags == IF Len(note.tags) > 0
                THEN <<"[">> \o JoinComma(note.tags) \o <<"]">>
                ELSE <<>>
        pinned == IF note.pinned THEN MSG_PIN_ICON ELSE <<>>
    IN  pinned \o <<"#">> \o id \o <<" ", " ">> \o title \o <<" ", " ">> \o tags

\* handleNew that creates the note in the root directory
handleNew_atRoot(argsStr, ctx, st, now) ==
    LET m == TitleMatch(argsStr)
        title == IF m = <<>> THEN MSG_UNTITLED ELSE m
        made == createNote(st, trim(title), <<>>, <<>>, NoId, now)
    IN  IF trim(title) = <<>>
        THEN Outcome(Result(<<Line("error", MSG_MISSING_TITLE),
                              Line("dim", MSG_NEW_USAGE),
                              Line("dim", MSG_NEW_EXAMPLE)>>), st, NoSetPath)
        ELSE Outcome([Result(<<Line("success", MSG_NOTE_CREATED
                                       \o IntToStr(made.ret.id) \o <<")">>),
                               Line("dim", MSG_OPENING_EDITOR)>>)
                        EXCEPT !.openEditor = [note |-> made.ret, isNew |-> TRUE]],
                     made.st, NoSetPath)

handleNew(argsStr, ctx, st, now) ==
    LET m == TitleMatch(argsStr)
        title == IF m = <<>> THEN MSG_UNTITLED ELSE m
        made == createNote(st, trim(title), <<>>, <<>>, ctx.currentPath, now)
    IN  IF trim(title) = <<>>
        THEN Outcome(Result(<<Line("error", MSG_MISSING_TITLE),
                              Line("dim", MSG_NEW_USAGE),
                              Line("dim", MSG_NEW_EXAMPLE)>>), st, NoSetPath)
        ELSE IF made.threw THEN Thrown(made.msg, st)
        ELSE Outcome([Result(<<Line("success", MSG_NOTE_CREATED
                                       \o IntToStr(made.ret.id) \o <<")">>),
                               Line("dim", MSG_OPENING_EDITOR)>>)
                        EXCEPT !.openEditor = [note |-> made.ret, isNew |-> TRUE]],
                     made.st, NoSetPath)

\* the comparator of handleList: pinned notes first, then updatedAt descending
ListBefore(a, b) ==
    IF a.pinned # b.pinned THEN a.pinned ELSE a.updatedAt > b.updatedAt

\* Array.prototype.sort with that comparator (stable insertion sort)
RECURSIVE InsertSorted(_, _)
InsertSorted(sorted, x) ==
    IF Len(sorted) = 0 THEN <<x>>
    ELSE IF ListBefore(x, sorted[1]) THEN <<x>> \o sorted
    ELSE <<sorted[1]>> \o InsertSorted(Tail(sorted), x)
RECURSIVE SortNotes(_)
SortNotes(ns) ==
    IF Len(ns) = 0 THEN <<>>
    ELSE InsertSorted(SortNotes(SubSeq(ns, 1, Len(ns) - 1)), ns[Len(ns)])

handleList(ctx, st) ==
    LET c == getFolderContents(st, ctx.currentPath)
        sorted == SortNotes(c.notes)
        folderLines ==
            [k \in 1..Len(c.folders) |->
                ActionLine("info", c.folders[k].name \o <<"/">>,
                           [type |-> "cd", path |-> c.folders[k].name])]
        noteLines ==
            [k \in 1..Len(sorted) |->
                ActionLine("output", formatNoteRow(sorted[k]),
                           [type |-> "open", id |-> sorted[k].id])]
        total == Line("dim", MSG_TOTAL
                        \o IntToStr(Len(c.folders) + Len(c.notes)) \o MSG_ITEMS)
    IN  IF Len(c.notes) = 0 /\ Len(c.folders) = 0
        THEN Outcome(Result(<<Line("dim", MSG_EMPTY)>>), st, NoSetPath)
        ELSE Outcome(Result(folderLines \o noteLines \o <<total>>), st, NoSetPath)

handleMkdir(argsStr, ctx, st, now) ==
    LET name == TitleMatch(argsStr)
        made == createFolder(st, trim(name), ctx.currentPath, now)
    IN  IF trim(name) = <<>>
        THEN Outcome(Result(<<Line("error", MSG_MISSING_DIR)>>), st, NoSetPath)
        ELSE IF made.threw
        THEN Outcome(Result(<<Line("error", MSG_MKDIR_FAILED \o MSG_ERROR
                                      \o made.msg)>>),
                     st, NoSetPath)
        ELSE Outcome(Result(<<Line("success", MSG_DIR_CREATED_1 \o trim(name)
                                      \o MSG_DIR_CREATED_2)>>),
                     made.st, NoSetPath)

\* handleCd whose ".." always lands in the root directory
handleCd_upToRoot(argsStr, ctx, st) ==
    LET path == trim(argsStr)
        fs == getFolderContents(st, ctx.currentPath).folders
        hits == {k \in 1..Len(fs) : toLowerCase(fs[k].name) = toLowerCase(path)}
        target == fs[CHOOSE k \in hits : \A j \in hits : k <= j]
    IN  IF path = <<>> \/ path = <<"~">> \/ path = <<"/">> \/ path = <<".", ".">>
        THEN Outcome(Result(<<>>), st, SetPath(NoId))
        ELSE IF hits # {}
        THEN Outcome(Result(<<>>), st, SetPath(target.id))
        ELSE Outcome(Result(<<Line("error", MSG_CD \o path \o MSG_NO_SUCH_DIR)>>),
                     st, NoSetPath)

\* handleCd that falls back to root when no child folder matches
handleCd_fallsBack(argsStr, ctx, st) ==
    LET path == trim(argsStr)
        current == getFolder(st, ctx.currentPath)
        fs == getFolderContents(st, ctx.currentPath).folders
        hits == {k \in 1..Len(fs) : toLowerCase(fs[k].name) = toLowerCase(path)}
        target == fs[CHOOSE k \in hits : \A j \in hits : k <= j]
    IN  IF path = <<>> \/ path = <<"~">> \/ path = <<"/">>
        THEN Outcome(Result(<<>>), st, SetPath(NoId))
        ELSE IF path = <<".", ".">>
        THEN IF ctx.currentPath = NoId
             THEN Outcome(Result(<<>>), st, NoSetPath)
             ELSE Outcome(Result(<<>>), st,
                          SetPath(IF current = None THEN NoId
                                  ELSE current.parentId))
        ELSE IF hits # {}
        THEN Outcome(Result(<<>>), st, SetPath(target.id))
        ELSE Outcome(Result(<<Line("error", MSG_CD \o path \o MSG_NO_SUCH_DIR)>>),
                     st, SetPath(NoId))

\* handleCd that enters the named directory without looking it up
handleCd_unchecked(argsStr, ctx, st) ==
    LET path == trim(argsStr)
        current == getFolder(st, ctx.currentPath)
        fs == getFolderContents(st, ctx.currentPath).folders
        hits == {k \in 1..Len(fs) : toLowerCase(fs[k].name) = toLowerCase(path)}
        target == fs[CHOOSE k \in hits : \A j \in hits : k <= j]
    IN  IF path = <<>> \/ path = <<"~">> \/ path = <<"/">>
        THEN Outcome(Result(<<>>), st, SetPath(NoId))
        ELSE IF path = <<".", ".">>
        THEN IF ctx.currentPath = NoId
             THEN Outcome(Result(<<>>), st, NoSetPath)
             ELSE Outcome(Result(<<>>), st,
                          SetPath(IF current = None THEN NoId
                                  ELSE current.parentId))
        ELSE IF hits # {}
        THEN Outcome(Result(<<>>), st, SetPath(target.id))
        ELSE Outcome(Result(<<>>), st, SetPath(st.nextFolderId))

handleCd(argsStr, ctx, st) ==
    LET path == trim(argsStr)
        current == getFolder(st, ctx.currentPath)
        fs == getFolderContents(st, ctx.currentPath).folders
        hits == {k \in 1..Len(fs) : toLowerCase(fs[k].name) = toLowerCase(path)}
        target == fs[CHOOSE k \in hits : \A j \in hits : k <= j]
    IN  IF path = <<>> \/ path = <<"~">> \/ path = <<"/">>
        THEN Outcome(Result(<<>>), st, SetPath(NoId))
        ELSE IF path = <<".", ".">>
        THEN IF ctx.currentPath = NoId
             THEN Outcome(Result(<<>>), st, NoSetPath)
             ELSE Outcome(Result(<<>>), st,
                          SetPath(IF current = None THEN NoId
                                  ELSE current.parentId))
        ELSE IF hits # {}
        THEN Outcome(Result(<<>>), st, SetPath(target.id))
        ELSE Outcome(Result(<<Line("error", MSG_CD \o path \o MSG_NO_SUCH_DIR)>>),
                     st, NoSetPath)

handleDelete(argsStr, st, now) ==
    LET id == parseInt(argsStr)
        done == deleteNote(st, id.val, now)
    IN  IF id.nan
        THEN Outcome(Result(<<Line("error", MSG_MISSING_ID),
                              Line("dim", MSG_DELETE_USAGE),
                              Line("dim", MSG_DELETE_EXAMPLE)>>), st, NoSetPath)
        ELSE IF ~done.success
        THEN Outcome(Result(<<Line("error", MSG_NOTE_HASH \o IntToStr(id.val)
                                      \o MSG_NOT_FOUND_OR_DELETED)>>),
                     st, NoSetPath)
        ELSE Outcome([Result(<<Line("warning", MSG_DELETED_1 \o IntToStr(id.val)
                                       \o <<" ", "\"">> \o done.deletedNote.title
                                       \o MSG_DELETED_2),
                               Line("info", MSG_TYPE_RESTORE \o IntToStr(id.val)
                                       \o MSG_TO_UNDO)>>)
                        EXCEPT !.pendingUndo =
                            [noteId |-> id.val, title |-> done.deletedNote.title]],
                     done.st, NoSetPath)

handleRestore(argsStr, st, now) ==
    LET id == parseInt(argsStr)
        done == undoDelete(st, id.val, now)
    IN  IF id.nan
        THEN Outcome(Result(<<Line("error", MSG_MISSING_ID),
                              Line("dim", MSG_RESTORE_USAGE),
                              Line("dim", MSG_TRASH_TIP)>>), st, NoSetPath)
        ELSE IF ~done.ret
        THEN Outcome(Result(<<Line("error", MSG_NOTE_HASH \o IntToStr(id.val)
                                      \o MSG_NOT_IN_TRASH)>>), st, NoSetPath)
        ELSE Outcome(Result(<<Line("success", MSG_DELETED_1 \o IntToStr(id.val)
                                      \o MSG_RESTORED)>>), done.st, NoSetPath)

\* handlePin without the second togglePin call
handlePin_single(argsStr, st) ==
    LET id == parseInt(argsStr)
        first == togglePin(st, id.val)
        note == getNote(first.st, id.val)
    IN  IF id.nan
        THEN Outcome(Result(<<Line("error", MSG_INVALID_ID)>>), st, NoSetPath)
        ELSE IF note = None \/ note.deleted
        THEN Outcome(Result(<<Line("error", MSG_NOTE_HASH \o IntToStr(id.val)
                                      \o MSG_NOT_FOUND)>>), first.st, NoSetPath)
        ELSE IF note.pinned
        THEN Outcome(Result(<<Line("warning", MSG_NOTE_HASH \o IntToStr(id.val)
                                      \o MSG_ALREADY_PINNED)>>),
                     first.st, NoSetPath)
        ELSE Outcome(Result(<<Line("success", MSG_PINNED \o IntToStr(id.val))>>),
                     first.st, NoSetPath)

handlePin(argsStr, st) ==
    LET id == parseInt(argsStr)
        first == togglePin(st, id.val)
        note == getNote(first.st, id.val)
        second == togglePin(first.st, id.val)
    IN  IF id.nan
        THEN Outcome(Result(<<Line("error", MSG_INVALID_ID)>>), st, NoSetPath)
        ELSE IF note = None \/ note.deleted
        THEN Outcome(Result(<<Line("error", MSG_NOTE_HASH \o IntToStr(id.val)
                                      \o MSG_NOT_FOUND)>>), first.st, NoSetPath)
        ELSE IF note.pinned
        THEN Outcome(Result(<<Line("warning", MSG_NOTE_HASH \o IntToStr(id.val)
                                      \o MSG_ALREADY_PINNED)>>),
                     first.st, NoSetPath)
        ELSE Outcome(Result(<<Line("success", MSG_PINNED \o IntToStr(id.val))>>),
                     second.st, NoSetPath)

\* handleUnpin that toggles the pin before it looks at the note
handleUnpin_toggles(argsStr, st) ==
    LET id == parseInt(argsStr)
        first == togglePin(st, id.val)
        note == getNote(st, id.val)
    IN  IF id.nan
        THEN Outcome(Result(<<Line("error", MSG_INVALID_ID)>>), st, NoSetPath)
        ELSE IF note = None \/ note.deleted
        THEN Outcome(Result(<<Line("error", MSG_NOTE_HASH \o IntToStr(id.val)
                                      \o MSG_NOT_FOUND)>>), first.st, NoSetPath)
        ELSE IF ~note.pinned
        THEN Outcome(Result(<<Line("warning", MSG_NOTE_HASH \o IntToStr(id.val)
                                      \o MSG_NOT_PINNED)>>), first.st, NoSetPath)
        ELSE Outcome(Result(<<Line("success", MSG_UNPINNED \o IntToStr(id.val))>>),
                     first.st, NoSetPath)

handleUnpin(argsStr, st) ==
    LET id == parseInt(argsStr)
        note == getNote(st, id.val)
        done == togglePin(st, id.val)
    IN  IF id.nan
        THEN Outcome(Result(<<Line("error", MSG_INVALID_ID)>>), st, NoSetPath)
        ELSE IF note = None \/ note.deleted
        THEN Outcome(Result(<<Line("error", MSG_NOTE_HASH \o IntToStr(id.val)
                                      \o MSG_NOT_FOUND)>>), st, NoSetPath)
        ELSE IF ~note.pinned
        THEN Outcome(Result(<<Line("warning", MSG_NOTE_HASH \o IntToStr(id.val)
                                      \o MSG_NOT_PINNED)>>), st, NoSetPath)
        ELSE Outcome(Result(<<Line("success", MSG_UNPINNED \o IntToStr(id.val))>>),
                     done.st, NoSetPath)

\* a handlePurge that does not look at the deleted flag
handlePurge_any(argsStr, st) ==
    LET id == parseInt(argsStr)
        note == getNote(st, id.val)
    IN  IF id.nan \/ note = None
        THEN Outcome(Result(<<Line("error", MSG_NOTE_HASH \o IntToStr(id.val)
                                      \o MSG_NOT_FOUND)>>), st, NoSetPath)
        ELSE Outcome(Result(<<Line("warning", MSG_DELETED_1 \o IntToStr(id.val)
                                      \o <<" ", "\"">> \o note.title \o <<"\"">>
                                      \o MSG_PERMANENTLY_DELETED),
                              Line("dim", MSG_CANNOT_UNDO)>>),
                     purgeNote(st, id.val).st, NoSetPath)

handlePurge(argsStr, st) ==
    LET id == parseInt(argsStr)
        note == getNote(st, id.val)
        done == purgeNote(st, id.val)
    IN  IF id.nan
        THEN Outcome(Result(<<Line("error", MSG_MISSING_ID),
                              Line("dim", MSG_PURGE_USAGE),
                              Line("dim", MSG_TRASH_TIP)>>), st, NoSetPath)
        ELSE IF note = None
        THEN Outcome(Result(<<Line("error", MSG_NOTE_HASH \o IntToStr(id.val)
                                      \o MSG_NOT_FOUND)>>), st, NoSetPath)
        ELSE IF ~note.deleted
        THEN Outcome(Result(<<Line("warning", MSG_NOTE_HASH \o IntToStr(id.val)
                                      \o MSG_IS_NOT_IN_TRASH),
                              Line("dim", MSG_DELETE_FIRST)>>), st, NoSetPath)
        ELSE Outcome(Result(<<Line("warning", MSG_DELETED_1 \o IntToStr(id.val)
                                      \o <<" ", "\"">> \o note.title \o <<"\"">>
                                      \o MSG_PERMANENTLY_DELETED),
                              Line("dim", MSG_CANNOT_UNDO)>>),
                     done.st, NoSetPath)

handleEdit(argsStr, st) ==
    LET id == parseInt(argsStr)
        note == getNote(st, id.val)
    IN  IF id.nan
        THEN Outcome(Result(<<Line("error", MSG_MISSING_ID),
                              Line("dim", MSG_EDIT_USAGE),
                              Line("dim", MSG_EDIT_EXAMPLE)>>), st, NoSetPath)
        ELSE IF note = None \/ note.deleted
        THEN Outcome(Result(<<Line("error", MSG_NOTE_HASH \o IntToStr(id.val)
                                      \o MSG_NOT_FOUND)>>), st, NoSetPath)
        ELSE Outcome([Result(<<Line("info", MSG_OPENING_FOR \o IntToStr(id.val)
                                       \o <<":", " ">> \o note.title
                                       \o MSG_ELLIPSIS)>>)
                        EXCEPT !.openEditor = [note |-> note, isNew |-> FALSE]],
                     st, NoSetPath)

\* formatDate: toLocaleString("en-US", month short, day, hour, minute) of
\* a timestamp in the first minute of the epoch, read in the UTC zone
formatDate(timestamp) == MSG_EPOCH

showNote(note) ==
    Result(<<Line("info", MSG_NOTE_HEAD \o IntToStr(note.id) \o <<":", " ">>
                      \o note.title \o MSG_NOTE_TAIL),
             Line("output", <<>>),
             Line("markdown", note.body),
             Line("output", <<>>),
             Line("dim", MSG_CREATED \o formatDate(note.createdAt)),
             Line("dim", MSG_UPDATED \o formatDate(note.updatedAt))>>
           \o (IF Len(note.tags) > 0
               THEN <<Line("dim", MSG_TAGS \o JoinComma(note.tags))>>
               ELSE <<>>))

\* argsStr.replace(/^["']|["']$/g, ""): one quote off the front, then one
\* quote off the end of what is left
StripQuotes(argsStr) ==
    LET IsQuote(c) == c \in {"\"", "'"}
        front == IF Len(argsStr) > 0 /\ IsQuote(argsStr[1])
                 THEN SubSeq(argsStr, 2, Len(argsStr)) ELSE argsStr
    IN  IF Len(front) > 0 /\ IsQuote(front[Len(front)])
        THEN SubSeq(front, 1, Len(front) - 1) ELSE front

\* the first n elements of a sequence
Take(seq, n) == SubSeq(seq, 1, IF Len(seq) < n THEN Len(seq) ELSE n)

\* a handler that looks notes up by id only
handleOpen_idOnly(argsStr, st) ==
    LET id == parseInt(argsStr)
        note == getNote(st, id.val)
    IN  IF ~id.nan /\ note # None /\ ~note.deleted
        THEN Outcome(showNote(note), st, NoSetPath)
        ELSE Outcome(Result(<<Line("error", MSG_NOTE_HASH \o IntToStr(id.val)
                                      \o MSG_NOT_FOUND)>>), st, NoSetPath)

handleOpen(argsStr, st) ==
    LET id == parseInt(argsStr)
        note == getNote(st, id.val)
        query == trim(StripQuotes(argsStr))
        titles == getNoteTitles(st)
        matches == SelectSeq(titles,
                       LAMBDA t : includes(toLowerCase(t.title),
                                           toLowerCase(query)))
        shown == Take(matches, 5)
    IN  IF ~id.nan
        THEN IF note = None \/ note.deleted
             THEN Outcome(Result(<<Line("error", MSG_NOTE_HASH
                                       \o IntToStr(id.val) \o MSG_NOT_FOUND)>>),
                          st, NoSetPath)
             ELSE Outcome(showNote(note), st, NoSetPath)
        ELSE IF query = <<>>
        THEN Outcome(Result(<<Line("error", MSG_MISSING_ID_OR_TITLE),
                              Line("dim", MSG_OPEN_USAGE),
                              Line("dim", MSG_OPEN_EXAMPLE)>>), st, NoSetPath)
        ELSE IF Len(matches) = 0
        THEN Outcome(Result(<<Line("error", MSG_NO_NOTE_MATCHING \o query
                                      \o <<"\"">>)>>), st, NoSetPath)
        ELSE IF Len(matches) = 1
        THEN Outcome(showNote(getNote(st, matches[1].id)), st, NoSetPath)
        ELSE Outcome(Result(<<Line("warning", MSG_MULTIPLE_MATCH \o query
                                      \o MSG_QUOTE_COLON),
                              Line("output", <<>>)>>
                            \o [k \in 1..Len(shown) |->
                                  Line("output", MSG_MATCH_HASH
                                         \o IntToStr(shown[k].id)
                                         \o <<" ", " ">> \o shown[k].title)]
                            \o <<Line("output", <<>>),
                                 Line("dim", MSG_USE_ID)>>), st, NoSetPath)

\* String.prototype.indexOf, counted from 0; -1 when absent
IndexOf(s, sub) ==
    IF includes(s, sub)
    THEN CHOOSE i \in 0..(Len(s) - Len(sub)) :
            /\ SubSeq(s, i + 1, i + Len(sub)) = sub
            /\ \A j \in 0..(i - 1) : SubSeq(s, j + 1, j + Len(sub)) # sub
    ELSE -1

\* formatNoteRow with a highlight query: the first match in the padded
\* title is put between markers
formatNoteRowQuery(note, highlightQuery) ==
    LET id == padStart(IntToStr(note.id), ID_PAD)
        plain == IF Len(note.title) > TITLE_PAD
                 THEN sliceTo(note.title, TITLE_CUT) \o MSG_ELLIPSIS
                 ELSE padEnd(note.title, TITLE_PAD)
        idx == IndexOf(toLowerCase(plain), toLowerCase(highlightQuery))
        stop == IF idx + Len(highlightQuery) > Len(plain) THEN Len(plain)
                ELSE idx + Len(highlightQuery)
        title == IF highlightQuery # <<>> /\ idx # -1
                 THEN SubSeq(plain, 1, idx) \o MSG_MARK_OPEN
                        \o SubSeq(plain, idx + 1, stop) \o MSG_MARK_CLOSE
                        \o SubSeq(plain, stop + 1, Len(plain))
                 ELSE plain
        tags == IF Len(note.tags) > 0
                THEN <<"[">> \o JoinComma(note.tags) \o <<"]">>
                ELSE <<>>
        pinned == IF note.pinned THEN MSG_PIN_ICON ELSE <<>>
    IN  pinned \o <<"#">> \o id \o <<" ", " ">> \o title \o <<" ", " ">> \o tags

handleTrash(st) ==
    LET deleted == getRecentlyDeleted(st)
    IN  IF Len(deleted) = 0
        THEN Outcome(Result(<<Line("dim", MSG_TRASH_EMPTY)>>), st, NoSetPath)
        ELSE Outcome(Result(
                <<Line("info", MSG_TRASH_HEAD \o IntToStr(Len(deleted))
                                 \o MSG_NOTES_TAIL),
                  Line("output", <<>>)>>
                \o [k \in 1..Len(deleted) |->
                      Line("warning", MSG_MATCH_HASH
                             \o IntToStr(deleted[k].noteId) \o <<" ", " ">>
                             \o deleted[k].title \o MSG_DELETED_AT
                             \o formatDate(deleted[k].deletedAt) \o <<"]">>)]
                \o <<Line("output", <<>>),
                     Line("dim", MSG_TRASH_RECOVER)>>), st, NoSetPath)

handleSearch(argsStr, st) ==
    LET query == trim(argsStr)
        found == searchNotes(st, query)
    IN  IF query = <<>>
        THEN Outcome(Result(<<Line("error", MSG_MISSING_QUERY),
                              Line("dim", MSG_SEARCH_USAGE),
                              Line("dim", MSG_SEARCH_EXAMPLE)>>), st, NoSetPath)
        ELSE IF Len(found) = 0
        THEN Outcome(Result(<<Line("dim", MSG_NO_RESULTS \o query \o <<"\"">>),
                              Line("output", <<>>),
                              Line("dim", MSG_SEARCH_LOOKS)>>), st, NoSetPath)
        ELSE Outcome(Result(
                <<Line("info", MSG_SEARCH_HEAD \o query \o MSG_QUOTE_PAREN
                                 \o IntToStr(Len(found)) \o MSG_RESULTS_TAIL),
                  Line("output", <<>>)>>
                \o [k \in 1..Len(found) |->
                      Line("output", formatNoteRowQuery(found[k], query))]
                \o <<Line("output", <<>>),
                     Line("dim", MSG_MATCHES_MARKED)>>), st, NoSetPath)

handleTags(argsStr, st) ==
    LET tagged == getNotesByTag(st, trim(argsStr))
        tags == getAllTags(st)
    IN  IF trim(argsStr) # <<>>
        THEN IF Len(tagged) = 0
             THEN Outcome(Result(<<Line("dim", MSG_NO_NOTES_WITH_TAG
                                          \o argsStr \o <<"\"">>)>>),
                          st, NoSetPath)
             ELSE Outcome(Result(
                     <<Line("info", MSG_TAG_HEAD \o argsStr \o MSG_PAREN
                                      \o IntToStr(Len(tagged)) \o MSG_NOTES_TAIL),
                       Line("output", <<>>)>>
                     \o [k \in 1..Len(tagged) |->
                           Line("output", formatNoteRow(tagged[k]))]),
                     st, NoSetPath)
        ELSE IF Len(tags) = 0
        THEN Outcome(Result(<<Line("dim", MSG_NO_TAGS),
                              Line("dim", MSG_ADD_TAGS)>>), st, NoSetPath)
        ELSE Outcome(Result(
                <<Line("info", MSG_ALL_TAGS), Line("output", <<>>)>>
                \o [k \in 1..Len(tags) |->
                      Line("output", <<" ", " ">> \o tags[k].tag \o MSG_PAREN
                             \o IntToStr(tags[k].count) \o <<")">>)]
                \o <<Line("output", <<>>),
                     Line("dim", MSG_TAGS_FILTER)>>), st, NoSetPath)

handleToday(st, now) ==
    LET got == createOrGetTodayNote(st, now)
    IN  IF got.threw THEN Thrown(got.msg, st)
        ELSE Outcome([Result(<<Line("info", MSG_OPENING_TODAY
                                      \o IntToStr(got.ret.id)
                                      \o MSG_TODAY_TAIL)>>)
                        EXCEPT !.openEditor = [note |-> got.ret,
                                               isNew |-> FALSE]],
                     got.st, NoSetPath)

\* the length of the longest prefix of s made of digits
RECURSIVE DigitPrefix(_, _)
DigitPrefix(s, i) ==
    IF i < Len(s) /\ IsDigit(s[i + 1]) THEN DigitPrefix(s, i + 1) ELSE i

\* the match of /^(\d+)\s+(?:"([^"]+)"|'([^']+)'|(.+))$/ on argsStr: the id
\* digits and the title of the alternative that matched
RenameMatch(argsStr) ==
    LET k == DigitPrefix(argsStr, 0)
        rest == trimStart(SubSeq(argsStr, k + 1, Len(argsStr)))
    IN  IF \/ k = 0
           \/ k = Len(argsStr)
           \/ ~IsSpace(argsStr[k + 1])
           \/ TitleMatch(rest) = <<>>
        THEN [matched |-> FALSE, id |-> <<>>, title |-> <<>>]
        ELSE [matched |-> TRUE, id |-> SubSeq(argsStr, 1, k),
              title |-> TitleMatch(rest)]

handleRename(argsStr, st, now) ==
    LET match == RenameMatch(argsStr)
        id == parseInt(match.id).val
        newTitle == trim(match.title)
        note == getNote(st, id)
    IN  IF ~match.matched
        THEN Outcome(Result(<<Line("error", MSG_RENAME_FORMAT),
                              Line("dim", MSG_RENAME_USAGE),
                              Line("dim", MSG_RENAME_EXAMPLE)>>), st, NoSetPath)
        ELSE IF newTitle = <<>>
        THEN Outcome(Result(<<Line("error", MSG_TITLE_EMPTY)>>), st, NoSetPath)
        ELSE IF note = None \/ note.deleted
        THEN Outcome(Result(<<Line("error", MSG_NOTE_HASH \o IntToStr(id)
                                      \o MSG_NOT_FOUND)>>), st, NoSetPath)
        ELSE Outcome(Result(<<Line("success", MSG_RENAMED_HEAD \o IntToStr(id)
                                      \o MSG_RENAMED_TAIL),
                              Line("dim", MSG_RENAME_FROM \o note.title
                                      \o MSG_RENAME_TO \o newTitle
                                      \o <<"\"">>)>>),
                     updateNote(st, id, newTitle, now), NoSetPath)

\* String.prototype.split(/\s+/)
RECURSIVE SplitSpaces(_)
SplitSpaces(s) ==
    LET RECURSIVE WordEnd(_)
        WordEnd(i) == IF i < Len(s) /\ ~IsSpace(s[i + 1]) THEN WordEnd(i + 1)
                      ELSE i
        k == WordEnd(0)
    IN  IF k = Len(s) THEN <<s>>
        ELSE <<SubSeq(s, 1, k)>>
               \o SplitSpaces(trimStart(SubSeq(s, k + 1, Len(s))))

\* Array.prototype.join(" ")
RECURSIVE JoinSpace(_)
JoinSpace(ss) ==
    IF Len(ss) = 0 THEN <<>>
    ELSE IF Len(ss) = 1 THEN ss[1]
    ELSE ss[1] \o <<" ">> \o JoinSpace(Tail(ss))

\* parseFloat(value) for a plain decimal numeral (sign, digits, fraction),
\* as far as handleConfig looks at it: NaN, below 0 or above 1
OutsideUnit(value) ==
    LET s == trimStart(value)
        signed == Len(s) > 0 /\ s[1] \in {"-", "+"}
        body == IF signed THEN Tail(s) ELSE s
        k == DigitPrefix(body, 0)
        dotted == k < Len(body) /\ body[k + 1] = "."
        f == IF dotted THEN DigitPrefix(SubSeq(body, k + 2, Len(body)), 0) ELSE 0
        whole == IF k = 0 THEN 0 ELSE parseInt(SubSeq(body, 1, k)).val
        fraction == \E i \in (k + 2)..(k + 1 + f) : body[i] # "0"
    IN  \/ k = 0 /\ f = 0
        \/ signed /\ s[1] = "-" /\ (whole > 0 \/ fraction)
        \/ whole > 1
        \/ whole = 1 /\ fraction

handleConfig(argsStr, st) ==
    LET parts == SplitSpaces(trim(argsStr))
        key == parts[1]
        value == JoinSpace(Tail(parts))
        all == getAllConfig(st)
        currentValue == getConfig(st, key)
        validKeys == <<K_theme, K_scanlines, K_autosave, K_dateFormat,
                       K_crtEnabled, K_glowIntensity, K_soundEnabled>>
        booleanKeys == <<K_scanlines, K_autosave, K_crtEnabled, K_soundEnabled>>
    IN  IF key = <<>> \/ key = K_list
        THEN Outcome(Result(
                <<Line("info", MSG_CONFIG_HEAD), Line("output", <<>>)>>
                \o [k \in 1..Len(all) |->
                      Line("output", <<" ", " ">> \o padEnd(all[k].key, 15)
                             \o MSG_EQUALS \o all[k].value)]
                \o <<Line("output", <<>>),
                     Line("dim", MSG_CONFIG_USAGE),
                     Line("dim", MSG_CONFIG_EXAMPLE),
                     Line("output", <<>>),
                     Line("success", MSG_AVAILABLE_THEMES
                            \o JoinComma(AVAILABLE_THEMES))>>), st, NoSetPath)
        ELSE IF value = <<>>
        THEN Outcome(Result(<<Line("output", key \o MSG_EQUALS
                                \o (IF currentValue = <<>> THEN MSG_NOT_SET
                                    ELSE currentValue))>>), st, NoSetPath)
        ELSE IF ~SeqContains(validKeys, toLowerCase(key))
        THEN Outcome(Result(<<Line("error", MSG_UNKNOWN_KEY \o key),
                              Line("dim", MSG_VALID_KEYS
                                     \o JoinComma(validKeys))>>), st, NoSetPath)
        ELSE IF key = K_theme /\ ~SeqContains(AVAILABLE_THEMES, value)
        THEN Outcome(Result(<<Line("error", MSG_INVALID_THEME \o value),
                              Line("dim", MSG_AVAILABLE_THEMES
                                     \o JoinComma(AVAILABLE_THEMES))>>),
                     st, NoSetPath)
        ELSE IF SeqContains(booleanKeys, key) /\ value \notin {V_true, V_false}
        THEN Outcome(Result(<<Line("error", MSG_INVALID_VALUE \o key
                                     \o <<":", " ">> \o value),
                              Line("dim", MSG_TRUE_OR_FALSE)>>), st, NoSetPath)
        ELSE IF key = K_glowIntensity /\ OutsideUnit(value)
        THEN Outcome(Result(<<Line("error", MSG_INVALID_VALUE \o key
                                     \o <<":", " ">> \o value),
                              Line("dim", MSG_NUMBER_RANGE)>>), st, NoSetPath)
        ELSE Outcome(Result(<<Line("success", MSG_CHECK \o key \o MSG_EQUALS
                                     \o value)>>
                            \o (IF key = K_theme
                                THEN <<Line("dim", MSG_THEME_UPDATED)>>
                                ELSE <<>>)),
                     setConfig(st, key, value), NoSetPath)

\* new RegExp(pattern, "i"), for patterns made of literal characters and
\* "."; an unclosed "(" or "[" is a SyntaxError.  Other metacharacters are
\* outside the modelled patterns.
RegExpThrows(pattern) ==
    \/ SeqContains(pattern, "(") /\ ~SeqContains(pattern, ")")
    \/ SeqContains(pattern, "[") /\ ~SeqContains(pattern, "]")
RegExpTest(pattern, text) ==
    \E i \in 0..(Len(text) - Len(pattern)) :
        \A k \in 1..Len(pattern) :
            IF pattern[k] = "." THEN text[i + k] # "\n"
            ELSE LowerChar(pattern[k]) = LowerChar(text[i + k])

\* handleGrep without the check for piped input
handleGrep_unpiped(argsStr, ctx, st) ==
    LET pattern == trim(argsStr)
        Matches(text) == RegExpTest(pattern, text)
        filtered == SelectSeq(ctx.stdin, Matches)
    IN  IF pattern = <<>>
        THEN Outcome(Result(<<Line("error", MSG_MISSING_PATTERN)>>), st, NoSetPath)
        ELSE Outcome(Result([k \in 1..Len(filtered) |->
                                Line("output", filtered[k])]), st, NoSetPath)

\* handleGrep; new RegExp raises a SyntaxError for a malformed pattern
handleGrep(argsStr, ctx, st) ==
    LET pattern == trim(argsStr)
        Matches(text) == RegExpTest(pattern, text)
        filtered == SelectSeq(ctx.stdin, Matches)
    IN  IF pattern = <<>>
        THEN Outcome(Result(<<Line("error", MSG_MISSING_PATTERN)>>), st, NoSetPath)
        ELSE IF ~ctx.hasStdin \/ Len(ctx.stdin) = 0
        THEN Outcome(Result(<<Line("error", MSG_GREP_NO_INPUT)>>), st, NoSetPath)
        ELSE IF RegExpThrows(pattern) THEN Thrown(MSG_REGEX_ERROR, st)
        ELSE Outcome(Result([k \in 1..Len(filtered) |->
                                Line("output", filtered[k])]), st, NoSetPath)

\* the length of the longest prefix of s in [\w-]*, counted from i
RECURSIVE WordPrefix(_, _)
WordPrefix(s, i) ==
    IF i < Len(s) /\ IsWordOrHyphen(s[i + 1]) THEN WordPrefix(s, i + 1) ELSE i

\* the match of /^([\w-]+)(?:\s+(.*))?$/s on a trimmed input
CommandMatch(trimmed) ==
    LET k == WordPrefix(trimmed, 0)
        rest == SubSeq(trimmed, k + 1, Len(trimmed))
    IN  IF k = 0 \/ (k < Len(trimmed) /\ ~IsSpace(trimmed[k + 1]))
        THEN [matched |-> FALSE, command |-> <<>>, argsStr |-> <<>>]
        ELSE [matched |-> TRUE, command |-> SubSeq(trimmed, 1, k),
              argsStr |-> trimStart(rest)]

VersionResult ==
    Result(<<Line("info", MSG_VERSION_BANNER),
             Line("dim", MSG_VERSION_TAGLINE),
             Line("output", <<>>),
             Line("dim", MSG_VERSION_AUTHOR)>>)

UnknownCommand(command) ==
    LET suggestion == findSimilarCommand(command)
    IN  Result(<<Line("error", MSG_UNKNOWN \o command \o <<"U+0060">>)>>
               \o (IF suggestion # <<>>
                   THEN <<Line("info", MSG_DID_YOU_MEAN \o suggestion
                                   \o MSG_BACKTICK_Q)>>
                   ELSE <<>>)
               \o <<Line("dim", MSG_TYPE_HELP)>>)

\* parseAndExecute: one pipeline stage, with the handlers of the commands
\* new, grep, mkdir, cd, pwd, list, open, edit, delete, restore, trash,
\* rename, purge, search, tags, today, config, export, import, clear, pin,
\* unpin and version, and the default branch; the switch runs inside the try
\* block
parseAndExecute(input, ctx, st, now) ==
    LET trimmed == trim(input)
        m == CommandMatch(trimmed)
        cmd == resolveAlias(toLowerCase(m.command))
    IN  IF trimmed = <<>> THEN Outcome(Result(<<>>), st, NoSetPath)
        ELSE IF Len(trimmed) > MAX_INPUT
        THEN Outcome(Result(<<Line("error", MSG_TOO_LONG)>>), st, NoSetPath)
        ELSE IF ~m.matched
        THEN Outcome(Result(<<Line("error", MSG_INVALID_FORMAT \o trimmed)>>),
                     st, NoSetPath)
        ELSE Caught(
             CASE cmd = W_new -> handleNew(m.argsStr, ctx, st, now)
               [] cmd = W_grep -> handleGrep(m.argsStr, ctx, st)
               [] cmd = W_mkdir -> handleMkdir(m.argsStr, ctx, st, now)
               [] cmd = W_cd -> handleCd(m.argsStr, ctx, st)
               [] cmd = W_pwd ->
                    Outcome(Result(<<Line("info", ctx.pathString)>>), st, NoSetPath)
               [] cmd = W_list -> handleList(ctx, st)
               [] cmd = W_open -> handleOpen(m.argsStr, st)
               [] cmd = W_trash -> handleTrash(st)
               [] cmd = W_rename -> handleRename(m.argsStr, st, now)
               [] cmd = W_search -> handleSearch(m.argsStr, st)
               [] cmd = W_tags -> handleTags(m.argsStr, st)
               [] cmd = W_today -> handleToday(st, now)
               [] cmd = W_config -> handleConfig(m.argsStr, st)
               [] cmd = W_delete -> handleDelete(m.argsStr, st, now)
               [] cmd = W_restore -> handleRestore(m.argsStr, st, now)
               [] cmd = W_export ->
                    Outcome([Result(<<Line("success", MSG_EXPORT)>>)
                               EXCEPT !.triggerExport = TRUE], st, NoSetPath)
               [] cmd = W_import ->
                    Outcome([Result(<<Line("info", MSG_IMPORT_1),
                                      Line("dim", MSG_IMPORT_2)>>)
                               EXCEPT !.triggerImport = TRUE], st, NoSetPath)
               [] cmd = W_clear ->
                    Outcome([Result(<<>>) EXCEPT !.shouldClear = TRUE],
                            st, NoSetPath)
               [] cmd = W_edit -> handleEdit(m.argsStr, st)
               [] cmd = W_purge -> handlePurge(m.argsStr, st)
               [] cmd = W_pin -> handlePin(m.argsStr, st)
               [] cmd = W_unpin -> handleUnpin(m.argsStr, st)
               [] cmd = W_version -> Outcome(VersionResult, st, NoSetPath)
               [] cmd \notin CommandNames ->
                    Outcome(UnknownCommand(m.command), st, NoSetPath))

----------------------------------------------------------------------------
(* Input lines *)

L_version ==
    <<"v", "e", "r", "s", "i", "o", "n">>
L_blank ==
    <<" ", " ", " ">>
L_new_alpha ==
    <<"n", "e", "w", " ", "A", "l", "p", "h", "a">>
L_list_grep_quoted ==
    <<"l", "i", "s", "t", " ", "|", " ", "g", "r", "e", "p", " ", "\"", "a",
      "\"">>
L_badcmd_list ==
    <<"b", "a", "d", "c", "m", "d", " ", "|", " ", "l", "i", "s", "t">>
L_grep_x ==
    <<"g", "r", "e", "p", " ", "x">>
L_grep ==
    <<"g", "r", "e", "p">>
L_filter_upper ==
    <<"F", "I", "L", "T", "E", "R", " ", "x">>
L_new_a ==
    <<"n", "e", "w", " ", "a">>
L_pin_1 ==
    <<"p", "i", "n", " ", "1">>
L_delete_1 ==
    <<"d", "e", "l", "e", "t", "e", " ", "1">>
L_restore_1 ==
    <<"r", "e", "s", "t", "o", "r", "e", " ", "1">>
L_mkdir_projects ==
    <<"m", "k", "d", "i", "r", " ", "p", "r", "o", "j", "e", "c", "t", "s">>
L_cd_projects ==
    <<"c", "d", " ", "p", "r", "o", "j", "e", "c", "t", "s">>
L_pwd ==
    <<"p", "w", "d">>
L_cd_nonexistent ==
    <<"c", "d", " ", "n", "o", "n", "e", "x", "i", "s", "t", "e", "n", "t">>
L_cd_up ==
    <<"c", "d", " ", ".", ".">>
L_cd_projects_list ==
    <<"c", "d", " ", "p", "r", "o", "j", "e", "c", "t", "s", " ", "|", " ", "l",
      "i", "s", "t">>
L_list ==
    <<"l", "i", "s", "t">>
L_list_grep_paren ==
    <<"l", "i", "s", "t", " ", "|", " ", "g", "r", "e", "p", " ", "(">>
L_unpin_1 ==
    <<"u", "n", "p", "i", "n", " ", "1">>
L_purge_1_grep_trash ==
    <<"p", "u", "r", "g", "e", " ", "1", " ", "|", " ", "g", "r", "e", "p", " ",
      "t", "r", "a", "s", "h">>
L_delete_1abc ==
    <<"d", "e", "l", "e", "t", "e", " ", "1", "a", "b", "c">>
L_pin_1_5 ==
    <<"p", "i", "n", " ", "1", ".", "5">>
L_edit_x ==
    <<"e", "d", "i", "t", " ", "x">>
L_delete ==
    <<"d", "e", "l", "e", "t", "e">>
L_clear ==
    <<"c", "l", "e", "a", "r">>
L_list_clear ==
    <<"l", "i", "s", "t", " ", "|", " ", "c", "l", "e", "a", "r">>
L_new_a_list ==
    <<"n", "e", "w", " ", "a", " ", "|", " ", "l", "i", "s", "t">>
L_new ==
    <<"n", "e", "w">>
L_new_quoted_blank ==
    <<"n", "e", "w", " ", "\"", " ", " ", "\"">>
L_new_quoted_alpha ==
    <<"n", "e", "w", " ", "\"", "A", "l", "p", "h", "a", "\"">>
L_new_single_lt ==
    <<"n", "e", "w", " ", "'", " ", "a", "<", "b", "'">>
L_pwd_grep ==
    <<"p", "w", "d", " ", "|", " ", "g", "r", "e", "p", " ">>
L_new_ ==
    <<"n", "e", "w", " ">>
L_pipe_grep ==
    <<" ", "|", " ", "g", "r", "e", "p", " ">>
PATH_PROJECTS ==
    <<"~", "/", "p", "r", "o", "j", "e", "c", "t", "s">>

----------------------------------------------------------------------------
(* Session: the useShell hook and the terminal component that drives it *)

\* addToHistory that keeps the first 100 entries instead of the last
addToHistory_keepsOldest(hist, cmd) ==
    IF trim(cmd) = <<>> THEN hist
    ELSE sliceTo(Append(hist, cmd), HISTORY_MAX)

\* addToHistory: the history after cmd is added (the last 100 are kept)
addToHistory(hist, cmd) ==
    IF trim(cmd) = <<>> THEN hist
    ELSE LET newHistory == Append(hist, cmd)
         IN  IF Len(newHistory) <= HISTORY_MAX THEN newHistory
             ELSE SubSeq(newHistory, Len(newHistory) - HISTORY_MAX + 1,
                         Len(newHistory))

\* a loop that never breaks on an error line
hasError_never(result) == FALSE

\* a loop that breaks on a warning line as it does on an error line
hasError_orWarning(result) ==
    HasType(result, "error") \/ HasType(result, "warning")

\* execute: does the output of a stage stop the pipeline
hasError(result) == HasType(result, "error")

\* a context in which every stage after the first gets an empty stdin
StageStdin_empty(i, currentStdin) ==
    IF i > 1 THEN [hasStdin |-> TRUE, stdin |-> <<>>]
    ELSE [hasStdin |-> FALSE, stdin |-> <<>>]

\* execute: the stdin handed to stage i (1-based) of a pipeline
StageStdin(i, currentStdin) ==
    IF i > 1 THEN [hasStdin |-> TRUE, stdin |-> currentStdin]
    ELSE [hasStdin |-> FALSE, stdin |-> <<>>]

\* execute: the text of the output lines of a stage
Contents(result) == [k \in 1..Len(result.output) |-> result.output[k].content]

\* a terminal that accepts input while a pipeline is processing
Busy_never == FALSE

\* Terminal.executeCommand / CommandLine: input is refused while processing
Busy == isProcessing

\* the state of one execute call: the closure (line, currentPath and
\* pathString as captured), the loop variables, and a log of the stages
\* dispatched so far with the store each one left
NewRun(line) ==
    [line |-> line, commands |-> split(line, "|"), i |-> 1,
     currentStdin |-> <<>>, finalResult |-> None, stopped |-> FALSE,
     escaped |-> FALSE, message |-> <<>>,
     ctxPath |-> currentPath, ctxPathString |-> pathString,
     results |-> <<>>, stores |-> <<>>, stdins |-> <<>>, piped |-> <<>>,
     thrown |-> <<>>,
     before |-> Store, logBefore |-> output, promptPath |-> pathString]

\* execute, up to the first await: processing flag, prompt echo, history
ExecuteStart(line) ==
    /\ isProcessing' = TRUE
    /\ output' = Append(output,
                    [type |-> "prompt",
                     content |-> pathString \o MSG_PROMPT_SEP \o line,
                     action |-> NoAction, timestamp |-> clock])
    /\ history' = addToHistory(history, line)
    /\ historyIndex' = -1
    /\ running' = Append(running, NewRun(line))
    /\ submitted' = Append(submitted, line)
    /\ UNCHANGED <<storeVars, clock, currentPath, pathString, pendingPath,
                   lastRun, prevRun>>

\* Terminal: the mount effect runs execute("version") once
Mount ==
    /\ ~mounted
    /\ mounted' = TRUE
    /\ ExecuteStart(L_version)
    /\ UNCHANGED <<attempts, dropped, blanks>>

\* Terminal.executeCommand: the user submits a line; it is ignored while a
\* pipeline is processing or when it is blank, and handed to execute
\* otherwise
Submit(lines, max) ==
    /\ mounted
    /\ attempts < max
    /\ \E line \in lines :
        LET blank == trim(line) = <<>>
        IN  /\ attempts' = attempts + 1
            /\ IF Busy
               THEN /\ dropped' = dropped + (IF blank THEN 0 ELSE 1)
                    /\ UNCHANGED <<storeVars, clock, shellVars, pendingPath,
                                   runVars, mounted, blanks>>
               ELSE IF blank
               THEN UNCHANGED <<storeVars, clock, shellVars, pendingPath,
                                runVars, mounted, dropped, blanks>>
               ELSE /\ ExecuteStart(line)
                    /\ UNCHANGED <<mounted, dropped, blanks>>

\* a check that takes only the empty string for a blank line
IsBlank_emptyOnly(cmdInput) == cmdInput = <<>>

\* execute: the line is blank and the call returns at once
IsBlank(cmdInput) == trim(cmdInput) = <<>>

\* execute called with cmdInput by a consumer of the hook, as the mount
\* effect calls it
ExecuteCall(cmdInput) ==
    /\ attempts' = attempts + 1
    /\ IF IsBlank(cmdInput)
       THEN /\ blanks' = blanks + 1
            /\ UNCHANGED <<storeVars, clock, shellVars, pendingPath, runVars,
                           mounted, dropped>>
       ELSE /\ ExecuteStart(cmdInput)
            /\ UNCHANGED <<mounted, dropped, blanks>>

CallExecute(lines, max) ==
    /\ mounted
    /\ attempts < max
    /\ \E line \in lines : ExecuteCall(line)

\* the effect on currentPath: setPathString("~") at root, a getFolder call
\* otherwise
PathEffect(newPath) ==
    IF newPath = currentPath THEN UNCHANGED <<pathString, pendingPath>>
    ELSE IF newPath = NoId
    THEN pathString' = MSG_HOME /\ UNCHANGED pendingPath
    ELSE pendingPath' = pendingPath \cup {newPath} /\ UNCHANGED pathString

\* does the handler of this stage reach a call of the store
TouchesStore(input, ctx) ==
    LET trimmed == trim(input)
        m == CommandMatch(trimmed)
        cmd == resolveAlias(toLowerCase(m.command))
        args == trim(m.argsStr)
        title == IF TitleMatch(m.argsStr) = <<>> THEN MSG_UNTITLED
                 ELSE TitleMatch(m.argsStr)
    IN  /\ trimmed # <<>>
        /\ Len(trimmed) <= MAX_INPUT
        /\ m.matched
        /\ CASE cmd = W_new -> trim(title) # <<>>
             [] cmd = W_mkdir -> trim(TitleMatch(m.argsStr)) # <<>>
             [] cmd = W_cd ->
                    /\ args \notin {<<>>, <<"~">>, <<"/">>}
                    /\ ~(args = <<".", ".">> /\ ctx.currentPath = NoId)
             [] cmd \in {W_list, W_trash, W_tags, W_today} -> TRUE
             [] cmd = W_search -> args # <<>>
             [] cmd = W_config ->
                    ~HasType(handleConfig(m.argsStr, EmptyStore).result, "error")
             [] cmd = W_rename ->
                    /\ RenameMatch(m.argsStr).matched
                    /\ trim(RenameMatch(m.argsStr).title) # <<>>
             [] cmd = W_open ->
                    ~parseInt(m.argsStr).nan
                        \/ trim(StripQuotes(m.argsStr)) # <<>>
             [] cmd \in {W_delete, W_restore, W_pin, W_unpin, W_purge, W_edit} ->
                    ~parseInt(m.argsStr).nan
             [] OTHER -> FALSE

\* parseAndExecute when the first store call of the handler is rejected
\* with this message: handleMkdir reports it itself, the other handlers let
\* it reach the catch block
Rejected(input, ctx, st, message) ==
    LET m == CommandMatch(trim(input))
        cmd == resolveAlias(toLowerCase(m.command))
    IN  IF cmd = W_mkdir
        THEN Outcome(Result(<<Line("error", MSG_MKDIR_FAILED \o MSG_ERROR
                                      \o message)>>), st, NoSetPath)
        ELSE Caught(Thrown(message, st))

\* the context execute builds for the stage running[k] is about to dispatch
StageContext(r) ==
    LET inp == StageStdin(r.i, r.currentStdin)
    IN  [currentPath |-> r.ctxPath, pathString |-> r.ctxPathString,
         hasStdin |-> inp.hasStdin, stdin |-> inp.stdin]

\* execute: one turn of the loop over the stages of running[k], the stage
\* having produced the outcome o
RunStage(k, o) ==
    LET r == running[k]
        ctx == StageContext(r)
        logged == [r EXCEPT !.results = Append(@, o.result),
                            !.stores = Append(@, o.st),
                            !.stdins = Append(@, ctx.stdin),
                            !.piped = Append(@, ctx.hasStdin),
                            !.thrown = Append(@, o.threw)]
        newPath == IF o.setPath.called THEN o.setPath.id ELSE currentPath
    IN  /\ notes' = o.st.notes
        /\ folders' = o.st.folders
        /\ recentlyDeleted' = o.st.recentlyDeleted
        /\ nextNoteId' = o.st.nextNoteId
        /\ nextFolderId' = o.st.nextFolderId
        /\ config' = o.st.config
        /\ currentPath' = newPath
        /\ PathEffect(newPath)
        /\ running' =
              [running EXCEPT ![k] =
                  IF o.escaped
                  THEN [logged EXCEPT !.stopped = TRUE, !.escaped = TRUE,
                                      !.message = o.message]
                  ELSE IF hasError(o.result)
                  THEN [logged EXCEPT !.stopped = TRUE,
                                      !.finalResult = o.result]
                  ELSE [logged EXCEPT
                          !.finalResult = o.result,
                          !.i = r.i + 1,
                          !.currentStdin =
                              IF r.i < Len(r.commands)
                              THEN Contents(o.result) ELSE @]]
        /\ UNCHANGED <<clock, history, historyIndex, output, isProcessing,
                       mounted, lastRun, prevRun, submitted, attempts, dropped,
                       blanks>>

\* execute: the next stage of running[k] is dispatched and answers
Stage(k) ==
    /\ k \in 1..Len(running)
    /\ ~running[k].stopped
    /\ running[k].i <= Len(running[k].commands)
    /\ RunStage(k, parseAndExecute(running[k].commands[running[k].i],
                                   StageContext(running[k]), Store, clock))

\* execute: the next stage of running[k] is dispatched and the database
\* rejects its first request
StageFails(k, message) ==
    /\ k \in 1..Len(running)
    /\ ~running[k].stopped
    /\ running[k].i <= Len(running[k].commands)
    /\ TouchesStore(running[k].commands[running[k].i], StageContext(running[k]))
    /\ RunStage(k, Rejected(running[k].commands[running[k].i],
                            StageContext(running[k]), Store, message))

RemoveAt(seq, k) == SubSeq(seq, 1, k - 1) \o SubSeq(seq, k + 1, Len(seq))

\* a log that keeps its lines when the final result asks for a clear
FinalLog_keepsLog(log, r) ==
    IF r.escaped
    THEN Append(log, Line("error", MSG_SHELL_ERROR \o r.message))
    ELSE log \o r.finalResult.output

\* execute, after the loop: the log is cleared, or extended with the output
\* of the final result; an exception that reached execute is reported in
\* the log instead
FinalLog(log, r) ==
    IF r.escaped
    THEN Append(log, Line("error", MSG_SHELL_ERROR \o r.message))
    ELSE IF r.finalResult.shouldClear THEN <<>>
    ELSE log \o r.finalResult.output

\* a return value that keeps the editor request of the first stage when the
\* last stage made none
ReturnValue_firstEditor(r) ==
    IF r.escaped THEN None
    ELSE IF r.finalResult.openEditor = None
    THEN [r.finalResult EXCEPT !.openEditor = r.results[1].openEditor]
    ELSE r.finalResult

\* execute, after the loop: what the caller gets back, the result the loop
\* assigned last, or nothing when an exception reached the catch block
ReturnValue(r) ==
    IF r.escaped THEN None ELSE r.finalResult

\* execute whose processing flag is reset after the loop and not in a
\* finally block, so that it stays set when a stage ended the loop early
Finish_noFinally(k) ==
    /\ k \in 1..Len(running)
    /\ LET r == running[k]
       IN  /\ r.stopped \/ r.i > Len(r.commands)
           /\ output' = FinalLog(output, r)
           /\ isProcessing' = r.stopped
           /\ prevRun' = lastRun
           /\ lastRun' = [line |-> r.line, commands |-> r.commands,
                          results |-> r.results, stores |-> r.stores,
                          stdins |-> r.stdins, piped |-> r.piped,
                          thrown |-> r.thrown,
                          returned |-> ReturnValue(r),
                          before |-> r.before, after |-> Store,
                          logBefore |-> r.logBefore,
                          promptPath |-> r.promptPath,
                          cwdBefore |-> r.ctxPath, cwdAfter |-> currentPath]
           /\ running' = RemoveAt(running, k)
    /\ UNCHANGED <<storeVars, clock, history, historyIndex, currentPath,
                   pathString, mounted, pendingPath, submitted, attempts,
                   dropped, blanks>>

\* execute, after the loop: the log is updated, the result returned and the
\* processing flag reset
Finish(k) ==
    /\ k \in 1..Len(running)
    /\ LET r == running[k]
       IN  /\ r.stopped \/ r.i > Len(r.commands)
           /\ output' = FinalLog(output, r)
           /\ isProcessing' = FALSE
           /\ prevRun' = lastRun
           /\ lastRun' = [line |-> r.line, commands |-> r.commands,
                          results |-> r.results, stores |-> r.stores,
                          stdins |-> r.stdins, piped |-> r.piped,
                          thrown |-> r.thrown,
                          returned |-> ReturnValue(r),
                          before |-> r.before, after |-> Store,
                          logBefore |-> r.logBefore,
                          promptPath |-> r.promptPath,
                          cwdBefore |-> r.ctxPath, cwdAfter |-> currentPath]
           /\ running' = RemoveAt(running, k)
    /\ UNCHANGED <<storeVars, clock, history, historyIndex, currentPath,
                   pathString, mounted, pendingPath, submitted, attempts,
                   dropped, blanks>>

\* updatePathString: a getFolder call of the effect resolves
ResolvePath(f) ==
    /\ f \in pendingPath
    /\ pendingPath' = pendingPath \ {f}
    /\ pathString' = IF getFolder(Store, f) = None THEN MSG_UNKNOWN_PATH
                     ELSE MSG_HOME_SLASH \o getFolder(Store, f).name
    /\ UNCHANGED <<storeVars, clock, history, historyIndex, currentPath,
                   output, isProcessing, mounted, runVars, attempts, dropped,
                   blanks>>

\* a millisecond passes
Tick ==
    /\ clock < MaxClock
    /\ clock' = clock + 1
    /\ UNCHANGED <<storeVars, shellVars, mounted, pendingPath, runVars,
                   attempts, dropped, blanks>>

Init ==
    /\ notes = <<>>
    /\ folders = <<>>
    /\ recentlyDeleted = <<>>
    /\ nextNoteId = 1
    /\ nextFolderId = 1
    /\ config = <<>>
    /\ clock = 0
    /\ history = <<>>
    /\ historyIndex = -1
    /\ currentPath = NoId
    /\ pathString = MSG_HOME
    /\ output = <<>>
    /\ isProcessing = FALSE
    /\ mounted = FALSE
    /\ pendingPath = {}
    /\ running = <<>>
    /\ lastRun = None
    /\ prevRun = None
    /\ submitted = <<>>
    /\ attempts = 0
    /\ dropped = 0
    /\ blanks = 0

----------------------------------------------------------------------------
(* Specification of pipelines: short-circuit, length cap, grep *)

Repeat(c, n) == [i \in 1..n |-> c]

\* one stage, longer than the cap
L_long_single == L_new_ \o Repeat("a", MAX_INPUT)
\* two stages, each below the cap, the line above it
L_long_piped ==
    L_new_ \o Repeat("a", MAX_INPUT \div 2) \o L_pipe_grep
        \o Repeat("b", MAX_INPUT \div 2)

PipeLines ==
    {L_new_alpha, L_list_grep_quoted, L_badcmd_list, L_grep_x, L_grep,
     L_filter_upper, L_long_single, L_long_piped}

Next ==
    \/ Mount
    \/ Submit(PipeLines, MaxSubmits)
    \/ \E k \in 1..Len(running) : Stage(k)
    \/ \E k \in 1..Len(running) : Finish(k)

Spec == Init /\ [][Next]_vars

----------------------------------------------------------------------------
(* Properties of pipelines *)

\* the canonical command and the argument text of a stage, as the
\* dispatcher reads them
StageWord(stage) ==
    LET m == CommandMatch(trim(stage))
    IN  IF m.matched THEN resolveAlias(toLowerCase(m.command)) ELSE <<>>
StageArgs(stage) == CommandMatch(trim(stage)).argsStr

\* the execute calls on record: those in flight and the last completed one
Runs ==
    {running[k] : k \in 1..Len(running)}
        \cup (IF lastRun = None THEN {} ELSE {lastRun})

\* C1: when the output of a dispatched stage contains an error line, that
\* stage is the last one dispatched: no later stage runs, the store stays
\* as that stage left it, and execute returns that stage's result.
ShortCircuit ==
    /\ \A run \in Runs :
        \A j \in 1..Len(run.results) :
            HasType(run.results[j], "error") => j = Len(run.results)
    /\ lastRun # None =>
        \A j \in 1..Len(lastRun.results) :
            HasType(lastRun.results[j], "error") =>
                /\ lastRun.returned = lastRun.results[j]
                /\ lastRun.after = lastRun.stores[j]

\* `badcmd | list` has completed with one stage dispatched out of two
ShortCircuitSeen ==
    /\ lastRun # None
    /\ lastRun.line = L_badcmd_list
    /\ Len(lastRun.commands) = 2
    /\ Len(lastRun.results) = 1
    /\ HasType(lastRun.returned, "error")

\* C2: a submitted line longer than 1000 characters yields exactly one
\* error line and leaves the store as it was.
TooLongRejected ==
    (lastRun # None /\ Len(lastRun.line) > MAX_INPUT) =>
        /\ CountType(lastRun.returned, "error") = 1
        /\ lastRun.after = lastRun.before

\* C6: in `list | grep "x"` the final output is the list stage's output
\* lines that contain x, compared case-insensitively, in list order.
GrepQuotedFilters ==
    (/\ lastRun # None
     /\ Len(lastRun.commands) = 2
     /\ Len(lastRun.results) = 2
     /\ StageWord(lastRun.commands[1]) = W_list
     /\ StageWord(lastRun.commands[2]) = W_grep
     /\ QuotedBy(StageArgs(lastRun.commands[2]), "\"")) =>
        LET args == StageArgs(lastRun.commands[2])
            x == SubSeq(args, 2, Len(args) - 1)
            HasX(text) == includes(toLowerCase(text), toLowerCase(x))
        IN  Contents(lastRun.returned)
                = SelectSeq(Contents(lastRun.results[1]), HasX)

\* C7: grep dispatched as the first stage yields an error line and leaves
\* the store untouched, whatever its pattern.
GrepFirstErrors ==
    \A run \in Runs :
        (Len(run.results) >= 1 /\ StageWord(run.commands[1]) = W_grep) =>
            /\ HasType(run.results[1], "error")
            /\ run.stores[1] = run.before

\* `grep x` and a bare `grep` have both been submitted and answered
GrepFirstSeen ==
    /\ lastRun # None /\ prevRun # None
    /\ {lastRun.line, prevRun.line} = {L_grep_x, L_grep}
    /\ HasType(lastRun.returned, "error")
    /\ HasType(prevRun.returned, "error")

----------------------------------------------------------------------------
(* Concurrency of submissions *)

\* C4: at most one execute call is in flight; a line submitted while one
\* is running is ignored, so two pipelines never interleave.
OnePipeline ==
    /\ Len(running) <= 1
    /\ isProcessing <=> Len(running) = 1

\* a non-blank line was ignored while a pipeline was running
SubmissionDropped == Len(running) = 1 /\ dropped > 0

----------------------------------------------------------------------------
(* Specification of notes: pin, delete, restore *)

NoteLines == {L_new_a, L_pin_1, L_delete_1, L_restore_1}

NextNotes ==
    \/ Mount
    \/ Submit(NoteLines, MaxSubmits)
    \/ \E k \in 1..Len(running) : Stage(k)
    \/ \E k \in 1..Len(running) : Finish(k)
    \/ Tick

SpecNotes == Init /\ [][NextNotes]_vars

\* run is the single-stage line `<word> <id>`
IsIdCommand(run, word, id) ==
    /\ Len(run.commands) = 1
    /\ StageWord(run.commands[1]) = word
    /\ parseInt(StageArgs(run.commands[1])) = [nan |-> FALSE, val |-> id]

\* id names a note that is present, not deleted and not pinned in st
LiveUnpinned(st, id) ==
    /\ id \in DOMAIN st.notes
    /\ ~st.notes[id].deleted
    /\ ~st.notes[id].pinned

\* C3: `pin <id>` submitted twice in a row for a live, unpinned note gives
\* a success line and no warning the first time, a warning line and no
\* success the second time.
PinTwice ==
    (prevRun # None /\ lastRun # None) =>
        \A id \in DOMAIN prevRun.before.notes :
            (/\ IsIdCommand(prevRun, W_pin, id)
             /\ IsIdCommand(lastRun, W_pin, id)
             /\ LiveUnpinned(prevRun.before, id)) =>
                /\ HasType(prevRun.returned, "success")
                /\ ~HasType(prevRun.returned, "warning")
                /\ HasType(lastRun.returned, "warning")
                /\ ~HasType(lastRun.returned, "success")

\* C8: `delete <id>` of a live note followed by `restore <id>` leaves the
\* note not deleted, with the id, title, body and tags it had before the
\* delete, and no trash entry for that id.
DeleteRestoreRoundTrip ==
    (prevRun # None /\ lastRun # None) =>
        \A id \in DOMAIN prevRun.before.notes :
            (/\ IsIdCommand(prevRun, W_delete, id)
             /\ IsIdCommand(lastRun, W_restore, id)
             /\ ~prevRun.before.notes[id].deleted) =>
                /\ id \in DOMAIN lastRun.after.notes
                /\ LET was == prevRun.before.notes[id]
                       now == lastRun.after.notes[id]
                   IN  /\ ~now.deleted
                       /\ now.id = was.id
                       /\ now.title = was.title
                       /\ now.body = was.body
                       /\ now.tags = was.tags
                /\ \A k \in 1..Len(lastRun.after.recentlyDeleted) :
                        lastRun.after.recentlyDeleted[k].noteId # id

\* note 1 was deleted and then restored, both with success
DeleteRestoreSeen ==
    /\ prevRun # None /\ lastRun # None
    /\ prevRun.line = L_delete_1
    /\ prevRun.returned.pendingUndo # None
    /\ Len(prevRun.after.recentlyDeleted) = 1
    /\ lastRun.line = L_restore_1
    /\ HasType(lastRun.returned, "success")

----------------------------------------------------------------------------
(* Specification of navigation: mkdir, cd, pwd *)

NavLines ==
    {L_mkdir_projects, L_cd_projects, L_pwd, L_cd_nonexistent, L_cd_up}

NextNav ==
    \/ Mount
    \/ Submit(NavLines, MaxSubmits)
    \/ \E k \in 1..Len(running) : Stage(k)
    \/ \E k \in 1..Len(running) : Finish(k)
    \/ \E f \in pendingPath : ResolvePath(f)

SpecNav == Init /\ [][NextNav]_vars

\* run is a single `cd <path>` whose path is no special form and names no
\* child folder of the directory the run started in
CdNoMatch(run) ==
    /\ Len(run.commands) = 1
    /\ StageWord(run.commands[1]) = W_cd
    /\ LET path == trim(StageArgs(run.commands[1]))
       IN  /\ path \notin {<<>>, <<"~">>, <<"/">>, <<".", ".">>}
           /\ \A f \in DOMAIN run.before.folders :
                ~(/\ run.before.folders[f].parentId = run.cwdBefore
                  /\ toLowerCase(run.before.folders[f].name)
                        = toLowerCase(path))

\* C9: `cd <name>` with no matching child folder yields an error line
\* naming the path and leaves the current directory unchanged.
CdUnknownFails ==
    (lastRun # None /\ CdNoMatch(lastRun)) =>
        /\ \E k \in 1..Len(lastRun.returned.output) :
            /\ lastRun.returned.output[k].type = "error"
            /\ includes(lastRun.returned.output[k].content,
                        trim(StageArgs(lastRun.commands[1])))
        /\ lastRun.cwdAfter = lastRun.cwdBefore

\* `cd nonexistent` has been answered inside the projects folder
CdUnknownSeen ==
    /\ lastRun # None
    /\ lastRun.line = L_cd_nonexistent
    /\ lastRun.cwdBefore # NoId
    /\ currentPath = lastRun.cwdBefore
    /\ HasType(lastRun.returned, "error")

\* C10: after `mkdir projects`, `cd projects`, `pwd` from root, pwd reports
\* the projects path.
PwdReportsProjects ==
    (/\ lastRun # None
     /\ submitted = <<L_version, L_mkdir_projects, L_cd_projects, L_pwd>>
     /\ running = <<>>) =>
        lastRun.returned.output = <<Line("info", PATH_PROJECTS)>>

----------------------------------------------------------------------------
(* Specification of the command history *)

\* the n-th line of a session without two equal lines: a pipeline that
\* succeeds for even n, a lone grep that fails for odd n
HistLine(n) ==
    IF n % 2 = 0 THEN L_pwd_grep \o IntToStr(n)
    ELSE L_grep \o <<" ">> \o IntToStr(n)

NextHist ==
    \/ Mount
    \/ Submit({HistLine(Len(submitted))}, MaxHistSubmits)
    \/ \E k \in 1..Len(running) : Stage(k)
    \/ \E k \in 1..Len(running) : Finish(k)

SpecHist == Init /\ [][NextHist]_vars

\* C5: after n non-blank submissions the history holds the most recent
\* min(n, 100) of them, in submission order.
HistoryBound ==
    LET n == Len(submitted)
        kept == IF n < HISTORY_MAX THEN n ELSE HISTORY_MAX
    IN  /\ Len(history) = kept
        /\ history = SubSeq(submitted, n - kept + 1, n)

\* more than 100 lines were submitted and the oldest ones are gone
HistoryEvicted ==
    /\ Len(submitted) > HISTORY_MAX + 1
    /\ Len(history) = HISTORY_MAX
    /\ history[1] = submitted[Len(submitted) - HISTORY_MAX + 1]
    /\ \A k \in 1..Len(history) : history[k] # submitted[1]

----------------------------------------------------------------------------
(* Specification of the folder tree: nested folders, cd .., cd in a pipeline *)

TreeLines == {L_mkdir_projects, L_cd_projects, L_cd_up, L_cd_projects_list}

NextTree ==
    \/ Mount
    \/ Submit(TreeLines, MaxTreeSubmits)
    \/ \E k \in 1..Len(running) : Stage(k)
    \/ \E k \in 1..Len(running) : Finish(k)
    \/ \E f \in pendingPath : ResolvePath(f)

SpecTree == Init /\ [][NextTree]_vars

\* run is the single-stage line `cd ..`
IsCdUp(run) ==
    /\ Len(run.commands) = 1
    /\ StageWord(run.commands[1]) = W_cd
    /\ trim(StageArgs(run.commands[1])) = <<".", ".">>

\* C11: `cd ..` moves to the parent of the current folder (root when the
\* folder has no parent); at root it changes nothing and reports no error.
CdUpToParent ==
    (lastRun # None /\ IsCdUp(lastRun)) =>
        /\ ~HasType(lastRun.returned, "error")
        /\ lastRun.after = lastRun.before
        /\ lastRun.cwdAfter =
              IF lastRun.cwdBefore = NoId THEN NoId
              ELSE lastRun.before.folders[lastRun.cwdBefore].parentId

\* `cd ..` was answered in a folder whose parent is itself a folder
CdUpFromNested ==
    /\ lastRun # None
    /\ lastRun.line = L_cd_up
    /\ lastRun.cwdBefore # NoId
    /\ lastRun.cwdAfter # NoId
    /\ lastRun.cwdAfter # lastRun.cwdBefore
    /\ currentPath = lastRun.cwdAfter

\* C12: in `cd <folder> | list`, once the cd stage has changed the
\* directory, the list stage lists the directory the cd stage moved to.
CdThenListSeesNewDir ==
    (/\ lastRun # None
     /\ Len(lastRun.commands) = 2
     /\ Len(lastRun.results) = 2
     /\ StageWord(lastRun.commands[1]) = W_cd
     /\ StageWord(lastRun.commands[2]) = W_list
     /\ lastRun.cwdAfter # lastRun.cwdBefore) =>
        lastRun.results[2]
            = handleList([currentPath |-> lastRun.cwdAfter], lastRun.after).result

----------------------------------------------------------------------------
(* Specification of faults: a malformed pattern, a rejected database request *)

FaultLines == {L_new_a, L_list, L_list_grep_paren}

\* the messages of the errors the database raises
FaultMessages == {<<"d", "b", " ", "c", "l", "o", "s", "e", "d">>}

NextFaults ==
    \/ Mount
    \/ Submit(FaultLines, MaxSubmits)
    \/ \E k \in 1..Len(running) : Stage(k)
    \/ \E k \in 1..Len(running), message \in FaultMessages :
            StageFails(k, message)
    \/ \E k \in 1..Len(running) : Finish(k)

SpecFaults == Init /\ [][NextFaults]_vars

HasThrown(run) == \E j \in 1..Len(run.thrown) : run.thrown[j]

\* C13: an exception raised while a stage executes does not leave execute:
\* the stage answers with exactly one error line, which ends the pipeline
\* and is what the log shows after the prompt; the call returns a result
\* and the processing flag goes back to false.
ExceptionsContained ==
    /\ \A run \in Runs :
        \A j \in 1..Len(run.thrown) :
            run.thrown[j] =>
                /\ j = Len(run.results)
                /\ Len(run.results[j].output) = 1
                /\ run.results[j].output[1].type = "error"
    /\ \A k \in 1..Len(running) : ~running[k].escaped
    /\ (lastRun # None /\ running = <<>> /\ HasThrown(lastRun)) =>
        /\ ~isProcessing
        /\ lastRun.returned # None
        /\ CountType(lastRun.returned, "error") = 1
        /\ Len(output) = Len(lastRun.logBefore) + 2
        /\ SubSeq(output, 1, Len(lastRun.logBefore)) = lastRun.logBefore
        /\ output[Len(output) - 1].type = "prompt"
        /\ output[Len(output)].type = "error"

\* a malformed pattern and a rejected request have both been answered, and
\* the session has run a further line to its end
ExceptionsSeen ==
    /\ prevRun # None /\ lastRun # None
    /\ HasThrown(prevRun)
    /\ ~HasThrown(lastRun)
    /\ HasType(lastRun.returned, "success")
    /\ \E k \in 1..Len(output) :
          output[k].content = MSG_ERROR \o MSG_REGEX_ERROR
    /\ \E k \in 1..Len(output), message \in FaultMessages :
          output[k].content = MSG_ERROR \o message

----------------------------------------------------------------------------
(* Specification of id arguments: unpin, purge in a pipeline, malformed ids *)

IdLines ==
    {L_new_a, L_unpin_1, L_purge_1_grep_trash, L_delete_1abc, L_pin_1_5,
     L_edit_x, L_delete}

NextIds ==
    \/ Mount
    \/ Submit(IdLines, MaxSubmits)
    \/ \E k \in 1..Len(running) : Stage(k)
    \/ \E k \in 1..Len(running) : Finish(k)

SpecIds == Init /\ [][NextIds]_vars

\* C14: `unpin <id>` for a live note that is not pinned gives a warning
\* line, no error line, and leaves the store as it was.
UnpinUnpinnedWarns ==
    lastRun # None =>
        \A id \in DOMAIN lastRun.before.notes :
            (IsIdCommand(lastRun, W_unpin, id)
                /\ LiveUnpinned(lastRun.before, id)) =>
                /\ HasType(lastRun.returned, "warning")
                /\ ~HasType(lastRun.returned, "error")
                /\ lastRun.after = lastRun.before

\* `unpin 1` has been answered for the live, never pinned note 1
UnpinUnpinnedSeen ==
    /\ lastRun # None
    /\ lastRun.line = L_unpin_1
    /\ 1 \in DOMAIN lastRun.before.notes
    /\ LiveUnpinned(lastRun.before, 1)
    /\ Len(lastRun.results) = 1

\* C15: a stage whose output has a warning line and no error line does not
\* end the pipeline: the next stage is dispatched, with the contents of
\* that output as its stdin.
WarningsDoNotHalt ==
    lastRun # None =>
        \A j \in 1..Len(lastRun.results) :
            (/\ j < Len(lastRun.commands)
             /\ HasType(lastRun.results[j], "warning")
             /\ ~HasType(lastRun.results[j], "error")) =>
                /\ Len(lastRun.results) > j
                /\ lastRun.stdins[j + 1]
                      = [k \in 1..Len(lastRun.results[j].output) |->
                            lastRun.results[j].output[k].content]

\* `purge 1 | grep trash` for the live note 1: purge warned and grep kept
\* the warning line
WarningPipedSeen ==
    /\ lastRun # None
    /\ lastRun.line = L_purge_1_grep_trash
    /\ Len(lastRun.results) = 2
    /\ HasType(lastRun.results[1], "warning")
    /\ Contents(lastRun.returned)
          = <<MSG_NOTE_HASH \o <<"1">> \o MSG_IS_NOT_IN_TRASH>>

\* an optional sign followed by one or more digits, and nothing else
WellFormedInteger(s) ==
    LET body == IF Len(s) > 0 /\ s[1] \in {"-", "+"} THEN Tail(s) ELSE s
    IN  /\ Len(body) > 0
        /\ \A i \in 1..Len(body) : IsDigit(body[i])

IdCommands == {W_delete, W_restore, W_purge, W_edit, W_pin, W_unpin}

\* C17: an id-taking command whose argument is missing or is not a
\* well-formed integer yields an error line and leaves the store as it was.
IdArgumentsValidated ==
    (/\ lastRun # None
     /\ Len(lastRun.commands) = 1
     /\ StageWord(lastRun.commands[1]) \in IdCommands
     /\ ~WellFormedInteger(trim(StageArgs(lastRun.commands[1])))) =>
        /\ HasType(lastRun.returned, "error")
        /\ lastRun.after = lastRun.before

----------------------------------------------------------------------------
(* Specification of the output log: blank lines, clear, pipelines *)

LogLines == {L_new_a_list, L_clear, L_list_clear}
BlankLines == {<<>>, L_blank}

NextLog ==
    \/ Mount
    \/ Submit(LogLines, MaxSubmits)
    \/ CallExecute(BlankLines, MaxSubmits)
    \/ \E k \in 1..Len(running) : Stage(k)
    \/ \E k \in 1..Len(running) : Finish(k)

SpecLog == Init /\ [][NextLog]_vars

\* C16: execute called with a blank line changes nothing: not the log, the
\* history, the history cursor, the current directory, the processing flag
\* or the store, and no call is started or recorded as returning a result.
BlankIsNoOp ==
    [][\A line \in BlankLines :
          ExecuteCall(line) =>
              UNCHANGED <<output, history, historyIndex, currentPath,
                          isProcessing, storeVars, running, lastRun>>]_vars

\* a blank line has been passed to execute in a session that has a log and
\* a history to lose
BlankSeen ==
    /\ blanks > 0
    /\ output # <<>>
    /\ history # <<>>
    /\ nextNoteId > 1

\* C20: once execute has completed a line, the log is empty if the final
\* result asks for a clear; otherwise it is the log as it was, the prompt
\* echo of the line, and the output lines of the final result, nothing of
\* the earlier stages.
LogAfterExecute ==
    (lastRun # None /\ running = <<>>) =>
        IF lastRun.returned.shouldClear THEN output = <<>>
        ELSE LET n == Len(lastRun.logBefore)
             IN  /\ Len(output) = n + 1 + Len(lastRun.returned.output)
                 /\ SubSeq(output, 1, n) = lastRun.logBefore
                 /\ output[n + 1].type = "prompt"
                 /\ output[n + 1].content
                        = lastRun.promptPath \o MSG_PROMPT_SEP \o lastRun.line
                 /\ SubSeq(output, n + 2, Len(output)) = lastRun.returned.output
                 /\ lastRun.returned = lastRun.results[Len(lastRun.results)]

\* after a clear emptied the log, `new a | list` left its prompt and the
\* lines of list, without the lines of new
LogAfterClearSeen ==
    /\ prevRun # None /\ lastRun # None /\ running = <<>>
    /\ prevRun.returned.shouldClear
    /\ prevRun.logBefore # <<>>
    /\ lastRun.logBefore = <<>>
    /\ lastRun.line = L_new_a_list
    /\ Len(lastRun.results) = 2
    /\ HasType(lastRun.results[1], "success")
    /\ \A k \in 1..Len(output) : output[k].type # "success"
    /\ Len(output) = 1 + Len(lastRun.results[2].output)

----------------------------------------------------------------------------
(* Specification of note creation: titles, quoting, the parent folder *)

\* a bare title one character longer than createNote keeps
L_new_long == L_new_ \o Repeat("a", MAX_TITLE + 1)

NewLines ==
    {L_new, L_new_quoted_blank, L_new_quoted_alpha, L_new_single_lt,
     L_new_long, L_mkdir_projects, L_cd_projects}

NextNew ==
    \/ Mount
    \/ Submit(NewLines, MaxSubmits)
    \/ \E k \in 1..Len(running) : Stage(k)
    \/ \E k \in 1..Len(running) : Finish(k)
    \/ \E f \in pendingPath : ResolvePath(f)

SpecNew == Init /\ [][NextNew]_vars

\* run is a single-stage `new` line
IsNew(run) ==
    /\ Len(run.commands) = 1
    /\ StageWord(run.commands[1]) = W_new

\* the title T written in the argument text: the text between a pair of
\* double or single quotes, or the whole text
WrittenTitle(args) ==
    IF QuotedBy(args, "\"") \/ QuotedBy(args, "'")
    THEN SubSeq(args, 2, Len(args) - 1)
    ELSE args

\* C18: `new` without a title, or with a title that is empty after
\* trimming, yields an error line with dim usage hints and creates no note.
NewWithoutTitleFails ==
    (/\ lastRun # None
     /\ IsNew(lastRun)
     /\ trim(WrittenTitle(StageArgs(lastRun.commands[1]))) = <<>>) =>
        /\ HasType(lastRun.returned, "error")
        /\ HasType(lastRun.returned, "dim")
        /\ lastRun.after = lastRun.before

\* the note a single-stage `new` line added, when it added exactly one
Created(run) ==
    LET ids == DOMAIN run.after.notes \ DOMAIN run.before.notes
    IN  IF Cardinality(ids) = 1 THEN run.after.notes[CHOOSE id \in ids : TRUE]
        ELSE None

\* a single-stage `new` line whose written title is on one line and is not
\* empty after trimming
IsNewWithTitle(run) ==
    /\ IsNew(run)
    /\ trim(WrittenTitle(StageArgs(run.commands[1]))) # <<>>
    /\ ~SeqContains(StageArgs(run.commands[1]), "\n")

\* a single-stage `new` line has left exactly one more note, live and
\* unpinned, in the directory the session was in, with this title, and
\* its result asks for the editor on that note as a new one
CreatedWith(run, title) ==
    /\ Created(run) # None
    /\ \A id \in DOMAIN run.before.notes :
          run.after.notes[id] = run.before.notes[id]
    /\ Created(run).title = title
    /\ ~Created(run).deleted
    /\ ~Created(run).pinned
    /\ Created(run).parentId = run.cwdBefore
    /\ run.returned.openEditor = [note |-> Created(run), isNew |-> TRUE]

----------------------------------------------------------------------------
(* Specification of the registry: aliases and unregistered tokens *)

L_ls ==
    <<"l", "s">>
L_rm_1 ==
    <<"r", "m", " ", "1">>
L_frob ==
    <<"f", "r", "o", "b">>

AliasLines == {L_new_a, L_ls, L_rm_1, L_frob}

NextAlias ==
    \/ Mount
    \/ Submit(AliasLines, MaxSubmits)
    \/ \E k \in 1..Len(running) : Stage(k)
    \/ \E k \in 1..Len(running) : Finish(k)

SpecAlias == Init /\ [][NextAlias]_vars

\* the definitions of the registry in which tok is the name or an alias
Owners(tok) ==
    {k \in DOMAIN COMMAND_DEFINITIONS :
        \/ COMMAND_DEFINITIONS[k].name = tok
        \/ SeqContains(COMMAND_DEFINITIONS[k].aliases, tok)}

\* the command token of a stage, lower-cased, before resolution
StageToken(stage) == toLowerCase(CommandMatch(trim(stage)).command)

\* C21: every canonical name resolves to itself, every alias resolves to
\* the canonical name it is registered for, and the token of a dispatched
\* stage that is neither a name nor an alias is returned unchanged.
AliasesResolve ==
    /\ \A k \in DOMAIN COMMAND_DEFINITIONS :
        /\ resolveAlias(COMMAND_DEFINITIONS[k].name) = COMMAND_DEFINITIONS[k].name
        /\ \A a \in 1..Len(COMMAND_DEFINITIONS[k].aliases) :
              resolveAlias(COMMAND_DEFINITIONS[k].aliases[a])
                  = COMMAND_DEFINITIONS[k].name
    /\ \A run \in Runs :
        \A j \in 1..Len(run.results) :
            Owners(StageToken(run.commands[j])) = {} =>
                resolveAlias(StageToken(run.commands[j]))
                    = StageToken(run.commands[j])

\* `frob` was answered by the default branch, then `rm 1` deleted note 1
AliasAndUnknownSeen ==
    /\ prevRun # None /\ lastRun # None
    /\ prevRun.line = L_frob
    /\ HasType(prevRun.returned, "error")
    /\ lastRun.line = L_rm_1
    /\ StageWord(lastRun.commands[1]) = W_delete
    /\ lastRun.returned.pendingUndo # None
    /\ Len(lastRun.after.recentlyDeleted) = 1

\* C22: canonical names are unique, the alias sets of two distinct
\* definitions are disjoint, no alias of one definition is the name of
\* another, so every registered token has one owner and resolution does
\* not depend on the order in which the registry is walked.
RegistryDisjoint ==
    /\ \A j, k \in DOMAIN COMMAND_DEFINITIONS :
        j # k =>
            /\ COMMAND_DEFINITIONS[j].name # COMMAND_DEFINITIONS[k].name
            /\ \A a \in 1..Len(COMMAND_DEFINITIONS[j].aliases) :
                /\ ~SeqContains(COMMAND_DEFINITIONS[k].aliases,
                                COMMAND_DEFINITIONS[j].aliases[a])
                /\ COMMAND_DEFINITIONS[j].aliases[a]
                       # COMMAND_DEFINITIONS[k].name
    /\ \A run \in Runs :
        \A j \in 1..Len(run.results) :
            Cardinality(Owners(StageToken(run.commands[j]))) <= 1

\* `ls` was resolved to list and listed the note created before it
AliasListSeen ==
    /\ lastRun # None
    /\ lastRun.line = L_ls
    /\ StageWord(lastRun.commands[1]) = W_list
    /\ ~HasType(lastRun.returned, "error")
    /\ \E id \in DOMAIN lastRun.before.notes : ~lastRun.before.notes[id].deleted

----------------------------------------------------------------------------
(* Specification of open: by id and by title *)

L_new_ab ==
    <<"n", "e", "w", " ", "a", "b">>
L_open_q_a ==
    <<"o", "p", "e", "n", " ", "\"", "a", "\"">>
L_open_q_ab ==
    <<"o", "p", "e", "n", " ", "\"", "a", "b", "\"">>
L_open_1 ==
    <<"o", "p", "e", "n", " ", "1">>

OpenLines == {L_new_a, L_new_ab, L_open_q_a, L_open_q_ab, L_open_1}

NextOpen ==
    \/ Mount
    \/ Submit(OpenLines, MaxSubmits)
    \/ \E k \in 1..Len(running) : Stage(k)
    \/ \E k \in 1..Len(running) : Finish(k)

SpecOpen == Init /\ [][NextOpen]_vars

\* the notes of st that are not deleted
Live(st) == {id \in DOMAIN st.notes : ~st.notes[id].deleted}

\* run is the single command `open "<title>"`
IsOpenTitle(run, title) ==
    /\ Len(run.commands) = 1
    /\ StageWord(run.commands[1]) = W_open
    /\ StageArgs(run.commands[1]) = <<"\"">> \o title \o <<"\"">>

\* the notes of st, other than id, whose title contains the title of id
\* without its outer white space, letter case aside
OtherMatches(st, id) ==
    {o \in Live(st) \ {id} :
        includes(toLowerCase(st.notes[o].title),
                 toLowerCase(trim(st.notes[id].title)))}

\* C23 as stated: for every live note, `open "<its title>"` and
\* `open <its id>` both return the view of that note, also when other notes
\* have a title that contains this title.
OpenRoundTrip ==
    lastRun # None =>
        \A id \in Live(lastRun.before) :
            (\/ IsIdCommand(lastRun, W_open, id)
             \/ IsOpenTitle(lastRun, lastRun.before.notes[id].title)) =>
                lastRun.returned = showNote(lastRun.before.notes[id])

\* C23 amended: `open <id>` returns the view of the live note id;
\* `open "<its title>"` returns it when no other live note has a title that
\* contains this title, and otherwise answers with a warning and no view.
OpenRoundTripUnique ==
    lastRun # None =>
        \A id \in Live(lastRun.before) :
            LET note == lastRun.before.notes[id]
            IN  /\ IsIdCommand(lastRun, W_open, id) =>
                    lastRun.returned = showNote(note)
                /\ IsOpenTitle(lastRun, note.title) =>
                    IF OtherMatches(lastRun.before, id) = {}
                    THEN lastRun.returned = showNote(note)
                    ELSE /\ HasType(lastRun.returned, "warning")
                         /\ ~HasType(lastRun.returned, "markdown")
                /\ (IsIdCommand(lastRun, W_open, id)
                       \/ IsOpenTitle(lastRun, note.title)) =>
                    lastRun.after = lastRun.before

\* `open "ab"` returned the view of note 2 while note 1, titled a, exists
OpenByTitleSeen ==
    /\ lastRun # None
    /\ lastRun.line = L_open_q_ab
    /\ Cardinality(Live(lastRun.before)) = 2
    /\ \E id \in Live(lastRun.before) :
        /\ lastRun.before.notes[id].title = <<"a", "b">>
        /\ lastRun.returned = showNote(lastRun.before.notes[id])

----------------------------------------------------------------------------
(* Specification of the read paths over soft-deleted notes *)

L_today ==
    <<"t", "o", "d", "a", "y">>
L_search_daily ==
    <<"s", "e", "a", "r", "c", "h", " ", "d", "a", "i", "l", "y">>
L_tags ==
    <<"t", "a", "g", "s">>
L_tags_daily ==
    <<"t", "a", "g", "s", " ", "d", "a", "i", "l", "y">>
L_edit_1 ==
    <<"e", "d", "i", "t", " ", "1">>
L_rename_1_x ==
    <<"r", "e", "n", "a", "m", "e", " ", "1", " ", "x">>
L_trash ==
    <<"t", "r", "a", "s", "h">>

HiddenLines ==
    {L_today, L_delete_1, L_restore_1, L_list, L_search_daily, L_tags,
     L_tags_daily, L_open_1, L_edit_1, L_rename_1_x, L_trash}

NextHidden ==
    \/ Mount
    \/ Submit(HiddenLines, MaxSubmits)
    \/ \E k \in 1..Len(running) : Stage(k)
    \/ \E k \in 1..Len(running) : Finish(k)

SpecHidden == Init /\ [][NextHidden]_vars

\* the notes of st that are soft-deleted
Trashed(st) == {id \in DOMAIN st.notes : st.notes[id].deleted}

\* st as it would be had its soft-deleted notes never existed
WithoutTrashed(st) ==
    [st EXCEPT !.notes = [id \in Live(st) |-> st.notes[id]],
               !.recentlyDeleted = <<>>]

\* the context of the only stage of a single-command run
FirstContext(run) ==
    [currentPath |-> run.cwdBefore, pathString |-> run.promptPath,
     hasStdin |-> FALSE, stdin |-> <<>>]

\* res holds a row or an open action for the note id
Shows(res, id) ==
    \E k \in 1..Len(res.output) :
        \/ includes(res.output[k].content,
                    <<"#">> \o padStart(IntToStr(id), ID_PAD) \o <<" ", " ">>)
        \/ res.output[k].action = [type |-> "open", id |-> id]

\* run is the single command `rename <id> <title>`
IsRename(run, id) ==
    /\ Len(run.commands) = 1
    /\ StageWord(run.commands[1]) = W_rename
    /\ RenameMatch(StageArgs(run.commands[1])).matched
    /\ parseInt(RenameMatch(StageArgs(run.commands[1])).id).val = id

NotFound(id) ==
    Result(<<Line("error", MSG_NOTE_HASH \o IntToStr(id) \o MSG_NOT_FOUND)>>)

\* C24: while a note is soft-deleted, list, search and tags answer as if
\* the note did not exist and show no row for it, the title list does not
\* hold it, and open, edit and rename by its id report not found and
\* change nothing.
DeletedInvisible ==
    /\ \A k \in 1..Len(getNoteTitles(Store)) :
          getNoteTitles(Store)[k].id \notin Trashed(Store)
    /\ (lastRun # None /\ Len(lastRun.commands) = 1) =>
        LET st == lastRun.before
            stage == lastRun.commands[1]
        IN  /\ StageWord(stage) \in {W_list, W_search, W_tags} =>
                /\ \A id \in Trashed(st) : ~Shows(lastRun.returned, id)
                /\ lastRun.returned
                     = parseAndExecute(stage, FirstContext(lastRun),
                                       WithoutTrashed(st), 0).result
            /\ \A id \in Trashed(st) :
                (\/ IsIdCommand(lastRun, W_open, id)
                 \/ IsIdCommand(lastRun, W_edit, id)
                 \/ IsRename(lastRun, id)) =>
                    /\ lastRun.returned = NotFound(id)
                    /\ lastRun.after = st

\* the daily note was deleted and `search daily` then found nothing
DeletedHiddenSeen ==
    /\ prevRun # None /\ lastRun # None
    /\ prevRun.line = L_delete_1
    /\ prevRun.returned.pendingUndo # None
    /\ lastRun.line = L_search_daily
    /\ Trashed(lastRun.before) = {1}
    /\ lastRun.before.notes[1].tags = <<MSG_DAILY_TAG>>
    /\ lastRun.returned.output[1] =
          Line("dim", MSG_NO_RESULTS \o MSG_DAILY_TAG \o <<"\"">>)

----------------------------------------------------------------------------
(* Deleting what is not there: checked under SpecNotes *)

\* run is the single command `delete <id>` with an integer argument
IsDelete(run) ==
    /\ Len(run.commands) = 1
    /\ StageWord(run.commands[1]) = W_delete
    /\ ~parseInt(StageArgs(run.commands[1])).nan

DeleteId(run) == parseInt(StageArgs(run.commands[1])).val

\* C25: `delete <id>` for an id the store does not hold, or whose note is
\* already soft-deleted, gives an error line and no pendingUndo and leaves
\* the store, the trash included, as it was.
DeleteAbsentFails ==
    (/\ lastRun # None
     /\ IsDelete(lastRun)
     /\ DeleteId(lastRun) \notin Live(lastRun.before)) =>
            /\ HasType(lastRun.returned, "error")
            /\ lastRun.returned.pendingUndo = None
            /\ lastRun.after = lastRun.before
            /\ Cardinality({k \in 1..Len(lastRun.after.recentlyDeleted) :
                    lastRun.after.recentlyDeleted[k].noteId
                        = DeleteId(lastRun)}) <= 1

\* `delete 1` was answered a second time, note 1 being in the trash already
DeleteTwiceSeen ==
    /\ prevRun # None /\ lastRun # None
    /\ prevRun.line = L_delete_1
    /\ prevRun.returned.pendingUndo # None
    /\ lastRun.line = L_delete_1
    /\ 1 \in Trashed(lastRun.before)
    /\ Len(lastRun.after.recentlyDeleted) = 1
    /\ HasType(lastRun.returned, "error")

----------------------------------------------------------------------------
(* Specification of purge *)

L_purge_1 ==
    <<"p", "u", "r", "g", "e", " ", "1">>
L_delete_1_purge_1 ==
    <<"d", "e", "l", "e", "t", "e", " ", "1", " ", "|", " ", "p", "u", "r",
      "g", "e", " ", "1">>

PurgeLines == {L_new_a, L_delete_1, L_purge_1, L_delete_1_purge_1}

NextPurge ==
    \/ Mount
    \/ Submit(PurgeLines, MaxSubmits)
    \/ \E k \in 1..Len(running) : Stage(k)
    \/ \E k \in 1..Len(running) : Finish(k)

SpecPurge == Init /\ [][NextPurge]_vars

\* the store as stage j of run found it
StoreBefore(run, j) == IF j = 1 THEN run.before ELSE run.stores[j - 1]

\* C26: a purge stage naming a live note gives a warning line and no error
\* line and leaves the store as it was; a stage removes a note from the
\* store only when it is a purge stage and the note was soft-deleted when
\* the stage began.
PurgeOnlyTrashed ==
    \A run \in Runs :
        \A j \in 1..Len(run.results) :
            LET st == StoreBefore(run, j)
                id == parseInt(StageArgs(run.commands[j]))
            IN  /\ (/\ StageWord(run.commands[j]) = W_purge
                    /\ ~id.nan
                    /\ id.val \in Live(st)) =>
                        /\ HasType(run.results[j], "warning")
                        /\ ~HasType(run.results[j], "error")
                        /\ run.stores[j] = st
                /\ \A gone \in DOMAIN st.notes \ DOMAIN run.stores[j].notes :
                        /\ StageWord(run.commands[j]) = W_purge
                        /\ st.notes[gone].deleted

\* `purge 1` was answered with a warning while note 1 was live, and note 1
\* is still in the store
PurgeLiveSeen ==
    /\ lastRun # None
    /\ lastRun.line = L_purge_1
    /\ 1 \in Live(lastRun.before)
    /\ HasType(lastRun.returned, "warning")
    /\ 1 \in Live(lastRun.after)

----------------------------------------------------------------------------
(* Specification of list: order and membership of the lines *)

ListLines == {L_new_a, L_pin_1, L_mkdir_projects, L_list, L_cd_projects_list}

NextList ==
    \/ Mount
    \/ Submit(ListLines, MaxSubmits)
    \/ \E k \in 1..Len(running) : Stage(k)
    \/ \E k \in 1..Len(running) : Finish(k)
    \/ \E f \in pendingPath : ResolvePath(f)
    \/ Tick

SpecList == Init /\ [][NextList]_vars

\* the positions of the folder lines and of the note lines of a result
FolderRows(res) ==
    {k \in 1..Len(res.output) : res.output[k].action.type = "cd"}
NoteRows(res) ==
    {k \in 1..Len(res.output) : res.output[k].action.type = "open"}

\* the lines of res are a listing of directory dir of st: folders first,
\* notes pinned first and then latest update first, and exactly the live
\* notes and the folders whose parent is dir
ListsDirectory(res, st, dir) ==
    /\ \A f \in FolderRows(res) : \A n \in NoteRows(res) : f < n
    /\ \A a, b \in NoteRows(res) :
        a < b =>
            LET x == st.notes[res.output[a].action.id]
                y == st.notes[res.output[b].action.id]
            IN  /\ y.pinned => x.pinned
                /\ x.pinned = y.pinned => x.updatedAt >= y.updatedAt
    /\ {res.output[k].action.id : k \in NoteRows(res)}
          = {id \in Live(st) : st.notes[id].parentId = dir}
    /\ {res.output[k].action.path : k \in FolderRows(res)}
          = {st.folders[id].name :
                id \in {f \in DOMAIN st.folders : st.folders[f].parentId = dir}}

\* C27: when the last stage of a run is list, its output lists the
\* directory the session is in: folder lines before note lines, notes
\* pinned first and by updatedAt descending within each group, and only
\* live notes and folders whose parent is that directory.
ListOrdered ==
    (/\ lastRun # None
     /\ Len(lastRun.results) = Len(lastRun.commands)
     /\ StageWord(lastRun.commands[Len(lastRun.commands)]) = W_list) =>
        ListsDirectory(lastRun.returned, lastRun.after, lastRun.cwdAfter)

----------------------------------------------------------------------------
(* Specification of stdin threading through the stages of a pipeline *)

L_list_grep_t_grep_a ==
    <<"l", "i", "s", "t", " ", "|", " ", "g", "r", "e", "p", " ", "T", " ", "|",
      " ", "g", "r", "e", "p", " ", "a">>

ThreadLines == {L_new_a, L_new_a_list, L_pwd_grep, L_list_grep_t_grep_a}

NextThread ==
    \/ Mount
    \/ Submit(ThreadLines, MaxSubmits)
    \/ \E k \in 1..Len(running) : Stage(k)
    \/ \E k \in 1..Len(running) : Finish(k)

SpecThread == Init /\ [][NextThread]_vars

\* C28: the first stage of every pipeline is dispatched without stdin, and
\* every later stage that is dispatched gets as stdin the contents of the
\* output lines of the stage before it, all of them and in order.
StdinThreaded ==
    \A run \in Runs :
        \A j \in 1..Len(run.results) :
            IF j = 1 THEN ~run.piped[j]
            ELSE /\ run.piped[j]
                 /\ Len(run.stdins[j]) = Len(run.results[j - 1].output)
                 /\ \A k \in 1..Len(run.stdins[j]) :
                        run.stdins[j][k] = run.results[j - 1].output[k].content

\* `list | grep T | grep a` ran its three stages over a store with a note,
\* and the third stage was fed the one line the second one kept
ThreeStagesSeen ==
    /\ lastRun # None
    /\ lastRun.line = L_list_grep_t_grep_a
    /\ Len(lastRun.results) = 3
    /\ Len(lastRun.stdins[2]) >= 2
    /\ Len(lastRun.stdins[3]) >= 1
    /\ lastRun.stdins[3] # lastRun.stdins[2]

----------------------------------------------------------------------------
(* Specification of config: list, get and set *)

L_config ==
    <<"c", "o", "n", "f", "i", "g">>
L_config_bogus ==
    <<"c", "o", "n", "f", "i", "g", " ", "b", "o", "g", "u", "s">>
L_config_bogus_x ==
    <<"c", "o", "n", "f", "i", "g", " ", "b", "o", "g", "u", "s", " ", "x">>
L_config_theme ==
    <<"c", "o", "n", "f", "i", "g", " ", "t", "h", "e", "m", "e">>
L_config_theme_dracula ==
    <<"c", "o", "n", "f", "i", "g", " ", "t", "h", "e", "m", "e", " ", "d",
      "r", "a", "c", "u", "l", "a">>
L_config_theme_nope ==
    <<"c", "o", "n", "f", "i", "g", " ", "t", "h", "e", "m", "e", " ", "n",
      "o", "p", "e">>

ConfigLines ==
    {L_config, L_config_bogus, L_config_bogus_x, L_config_theme,
     L_config_theme_dracula, L_config_theme_nope}

NextConfig ==
    \/ Mount
    \/ Submit(ConfigLines, MaxSubmits)
    \/ \E k \in 1..Len(running) : Stage(k)
    \/ \E k \in 1..Len(running) : Finish(k)

SpecConfig == Init /\ [][NextConfig]_vars

\* the keys handleConfig accepts
KnownKeys ==
    {K_theme, K_scanlines, K_autosave, K_dateFormat, K_crtEnabled,
     K_glowIntensity, K_soundEnabled}

\* run is the single command `config <key>` or `config <key> <value>`
IsConfigKey(run, key) ==
    /\ Len(run.commands) = 1
    /\ StageWord(run.commands[1]) = W_config
    /\ SplitSpaces(trim(StageArgs(run.commands[1])))[1] = key
    /\ key \notin {<<>>, K_list}

\* C29: `config <key>` and `config <key> <value>` with a key that is not a
\* known configuration key give an error line and leave the stored
\* configuration as it was.
ConfigUnknownKeyFails ==
    lastRun # None =>
        \A key \in {SplitSpaces(trim(StageArgs(lastRun.commands[1])))[1]} :
            (IsConfigKey(lastRun, key) /\ toLowerCase(key) \notin KnownKeys) =>
                /\ HasType(lastRun.returned, "error")
                /\ lastRun.after.config = lastRun.before.config

----------------------------------------------------------------------------
(* Specification of the result execute returns for a pipeline *)

L_new_a_grep_x ==
    <<"n", "e", "w", " ", "a", " ", "|", " ", "g", "r", "e", "p", " ", "x">>
L_delete_1_pwd ==
    <<"d", "e", "l", "e", "t", "e", " ", "1", " ", "|", " ", "p", "w", "d">>
L_clear_pwd ==
    <<"c", "l", "e", "a", "r", " ", "|", " ", "p", "w", "d">>
L_export_pwd ==
    <<"e", "x", "p", "o", "r", "t", " ", "|", " ", "p", "w", "d">>
L_import_pwd ==
    <<"i", "m", "p", "o", "r", "t", " ", "|", " ", "p", "w", "d">>

ReturnLines ==
    {L_new_a_grep_x, L_delete_1_pwd, L_clear_pwd, L_export_pwd, L_import_pwd,
     L_list_clear, L_grep_x}

NextReturn ==
    \/ Mount
    \/ Submit(ReturnLines, MaxSubmits)
    \/ \E k \in 1..Len(running) : Stage(k)
    \/ \E k \in 1..Len(running) : Finish(k)

SpecReturn == Init /\ [][NextReturn]_vars

\* the five flags of a result
Flags(res) ==
    [openEditor |-> res.openEditor, shouldClear |-> res.shouldClear,
     triggerExport |-> res.triggerExport, triggerImport |-> res.triggerImport,
     pendingUndo |-> res.pendingUndo]

\* the context stage j of a finished run was dispatched with
ContextOf(run, j) ==
    [currentPath |-> run.cwdBefore, pathString |-> run.promptPath,
     hasStdin |-> run.piped[j], stdin |-> run.stdins[j]]

\* C30: the result execute returns is the result of the last stage it
\* dispatched, so its flags are the flags of that stage alone; every stage
\* starts from the store the stage before it left, and the store after the
\* run is the store the last stage left.
ReturnsLastStage ==
    (lastRun # None /\ lastRun.returned # None) =>
        LET n == Len(lastRun.results)
        IN  /\ n >= 1
            /\ lastRun.returned = lastRun.results[n]
            /\ Flags(lastRun.returned) = Flags(lastRun.results[n])
            /\ lastRun.after = lastRun.stores[n]
            /\ \A j \in 1..n :
                   lastRun.stores[j] =
                       parseAndExecute(lastRun.commands[j], ContextOf(lastRun, j),
                                       IF j = 1 THEN lastRun.before
                                       ELSE lastRun.stores[j - 1], clock).st

\* `new a | grep x` ran both stages: the first result asked for the editor,
\* the returned one does not, and the note the first stage made is stored
EarlierFlagDropped ==
    /\ lastRun # None
    /\ lastRun.line = L_new_a_grep_x
    /\ Len(lastRun.results) = 2
    /\ lastRun.results[1].openEditor # None
    /\ lastRun.returned # None
    /\ lastRun.returned.openEditor = None
    /\ DOMAIN lastRun.after.notes # DOMAIN lastRun.before.notes

----------------------------------------------------------------------------
(* Specification of the current directory across folder and note commands *)

L_cd_projects_cd_up ==
    <<"c", "d", " ", "p", "r", "o", "j", "e", "c", "t", "s", " ", "|", " ",
      "c", "d", " ", ".", ".">>

DirLines ==
    {L_mkdir_projects, L_cd_projects, L_cd_up, L_cd_nonexistent,
     L_cd_projects_cd_up, L_new_a, L_delete_1}

NextDir ==
    \/ Mount
    \/ Submit(DirLines, MaxSubmits)
    \/ \E k \in 1..Len(running) : Stage(k)
    \/ \E k \in 1..Len(running) : Finish(k)
    \/ \E f \in pendingPath : ResolvePath(f)

SpecDir == Init /\ [][NextDir]_vars

\* C31: the current directory of the session is root or the id of a folder
\* the store holds, in every state and whatever commands have run.
CurrentPathValid ==
    currentPath = NoId \/ currentPath \in DOMAIN folders

\* the session sits in a folder, after a cd that named no folder was
\* refused there
InsideFolderSeen ==
    /\ lastRun # None
    /\ lastRun.line = L_cd_nonexistent
    /\ HasType(lastRun.returned, "error")
    /\ currentPath # NoId
    /\ currentPath \in DOMAIN folders

----------------------------------------------------------------------------
(* Specification of the trash across delete, restore, purge, new, rename *)

TrashLines == {L_new_a, L_delete_1, L_restore_1, L_purge_1, L_rename_1_x}

NextTrash ==
    \/ Mount
    \/ Submit(TrashLines, MaxSubmits)
    \/ \E k \in 1..Len(running) : Stage(k)
    \/ \E k \in 1..Len(running) : Finish(k)

SpecTrash == Init /\ [][NextTrash]_vars

\* the positions of recentlyDeleted that hold a snapshot of note id
TrashEntries(id) ==
    {k \in 1..Len(recentlyDeleted) : recentlyDeleted[k].noteId = id}

\* C32: a note is soft-deleted if and only if recentlyDeleted holds exactly
\* one entry with its id, a live note has none, and every entry of
\* recentlyDeleted has the id of a note in the store.
TrashConsistent ==
    /\ \A id \in DOMAIN notes :
          /\ notes[id].deleted <=> Cardinality(TrashEntries(id)) = 1
          /\ ~notes[id].deleted => TrashEntries(id) = {}
    /\ \A k \in 1..Len(recentlyDeleted) :
          recentlyDeleted[k].noteId \in DOMAIN notes

\* `delete 1` has just soft-deleted the note `new a` made: the note is
\* marked deleted and recentlyDeleted holds its one entry
TrashedOnceSeen ==
    /\ lastRun # None /\ prevRun # None
    /\ prevRun.line = L_new_a
    /\ lastRun.line = L_delete_1
    /\ lastRun.returned.pendingUndo # None
    /\ 1 \in DOMAIN notes
    /\ notes[1].deleted
    /\ Cardinality(TrashEntries(1)) = 1

----------------------------------------------------------------------------
(* Specification of pin and unpin on live, deleted and absent notes *)

L_pin_2 ==
    <<"p", "i", "n", " ", "2">>

PinLines == {L_new_a, L_delete_1, L_pin_1, L_unpin_1, L_pin_2}

NextPin ==
    \/ Mount
    \/ Submit(PinLines, MaxSubmits)
    \/ \E k \in 1..Len(running) : Stage(k)
    \/ \E k \in 1..Len(running) : Finish(k)

SpecPin == Init /\ [][NextPin]_vars

\* run is the single command `pin <id>` or `unpin <id>` with a numeric id
IsPinOrUnpin(run) ==
    /\ Len(run.commands) = 1
    /\ StageWord(run.commands[1]) \in {W_pin, W_unpin}
    /\ ~parseInt(StageArgs(run.commands[1])).nan

PinId(run) == parseInt(StageArgs(run.commands[1])).val

\* C33: `pin <id>` and `unpin <id>` on an id that is not in the store, or
\* whose note is soft-deleted, give an error line and leave the store as it
\* was, the pinned flag of the soft-deleted note included.
PinAbsentFails ==
    (/\ lastRun # None
     /\ IsPinOrUnpin(lastRun)
     /\ \/ PinId(lastRun) \notin DOMAIN lastRun.before.notes
        \/ lastRun.before.notes[PinId(lastRun)].deleted) =>
        /\ HasType(lastRun.returned, "error")
        /\ lastRun.after = lastRun.before

\* C34: when `pin <id>` has run on a note that was in the store and not
\* deleted, the note is pinned, whether it was pinned before or not; when
\* `unpin <id>` has run on such a note, it is not pinned.
PinPostcondition ==
    (/\ lastRun # None
     /\ IsPinOrUnpin(lastRun)
     /\ PinId(lastRun) \in Live(lastRun.before)) =>
        /\ PinId(lastRun) \in Live(lastRun.after)
        /\ lastRun.after.notes[PinId(lastRun)].pinned
              = (StageWord(lastRun.commands[1]) = W_pin)

\* `pin 1` ran on a note that was already pinned, and left it pinned
PinnedTwiceSeen ==
    /\ lastRun # None /\ prevRun # None
    /\ prevRun.line = L_pin_1
    /\ lastRun.line = L_pin_1
    /\ 1 \in Live(lastRun.before)
    /\ lastRun.before.notes[1].pinned
    /\ lastRun.after.notes[1].pinned

----------------------------------------------------------------------------
(* Specification of the processing flag, with every stage and every call
   of execute running to its end *)

LiveLines == {L_new_a, L_list, L_badcmd_list, L_list_grep_paren}

\* the stage running[k] is about to dispatch answers or is rejected
StageEnds ==
    \E k \in 1..Len(running) :
        \/ Stage(k)
        \/ \E message \in FaultMessages : StageFails(k, message)

NextLive ==
    \/ Mount
    \/ Submit(LiveLines, MaxSubmits)
    \/ StageEnds
    \/ \E k \in 1..Len(running) : Finish(k)

\* a call of execute is waiting for a stage: the enabling condition of
\* StageEnds, whose every step extends the log of stages of that call
CanStage ==
    \E k \in 1..Len(running) :
        ~running[k].stopped /\ running[k].i <= Len(running[k].commands)

\* every awaited stage is answered or rejected (weak fairness of StageEnds,
\* written with its enabling condition), and the code after the loop runs
SpecLive ==
    /\ Init /\ [][NextLive]_vars
    /\ (<>[]CanStage => []<><<StageEnds>>_vars)
    /\ WF_vars(\E k \in 1..Len(running) : Finish(k))

\* C35: the processing flag is set whenever a call of execute is in flight,
\* and, every store request being answered or rejected, it is reset and no
\* call is left in flight, whether the pipeline ran to its end, stopped at
\* an error line, or a stage raised an exception.
ProcessingResets ==
    /\ [](running # <<>> => isProcessing)
    /\ isProcessing ~> (~isProcessing /\ running = <<>>)

\* a pipeline stopped at its first stage by an error line has finished and
\* the flag is reset, after a pipeline a rejected request had ended
ShortCircuitEnded ==
    /\ lastRun # None /\ prevRun # None
    /\ HasThrown(prevRun)
    /\ lastRun.line = L_badcmd_list
    /\ Len(lastRun.results) = 1
    /\ HasType(lastRun.returned, "error")
    /\ running = <<>>
    /\ ~isProcessing

----------------------------------------------------------------------------
(* Specification of mkdir and cd with bare and quoted names *)

L_mkdir_q_my_stuff ==
    <<"m", "k", "d", "i", "r", " ", "\"", "m", "y", " ", "s", "t", "u", "f",
      "f", "\"">>
L_cd_q_my_stuff ==
    <<"c", "d", " ", "\"", "m", "y", " ", "s", "t", "u", "f", "f", "\"">>
L_mkdir_s_docs ==
    <<"m", "k", "d", "i", "r", " ", "'", "d", "o", "c", "s", "'">>
L_cd_s_docs ==
    <<"c", "d", " ", "'", "d", "o", "c", "s", "'">>

QuoteLines ==
    {L_mkdir_projects, L_cd_projects, L_mkdir_q_my_stuff, L_cd_q_my_stuff,
     L_mkdir_s_docs, L_cd_s_docs}

NextQuote ==
    \/ Mount
    \/ Submit(QuoteLines, MaxSubmits)
    \/ \E k \in 1..Len(running) : Stage(k)
    \/ \E k \in 1..Len(running) : Finish(k)
    \/ \E f \in pendingPath : ResolvePath(f)

SpecQuote == Init /\ [][NextQuote]_vars

\* first is a single `mkdir <arg>` that made a folder, second the single
\* `cd <arg>` with the same argument text, run next in the same directory
MkdirThenCd(first, second) ==
    /\ Len(first.commands) = 1 /\ Len(second.commands) = 1
    /\ StageWord(first.commands[1]) = W_mkdir
    /\ StageWord(second.commands[1]) = W_cd
    /\ StageArgs(first.commands[1]) = StageArgs(second.commands[1])
    /\ HasType(first.returned, "success")
    /\ second.before = first.after
    /\ second.cwdBefore = first.cwdBefore

\* the folders first made
MadeBy(first) == DOMAIN first.after.folders \ DOMAIN first.before.folders

\* C36: when `mkdir <arg>` has made a folder in the current directory, the
\* `cd <arg>` that follows with the same argument text, bare or in double or
\* single quotes, gives no error and makes a folder of the name mkdir gave
\* it, in that directory, the current directory.
MkdirCdRoundTrip ==
    (/\ prevRun # None /\ lastRun # None
     /\ MkdirThenCd(prevRun, lastRun)) =>
        /\ ~HasType(lastRun.returned, "error")
        /\ lastRun.cwdAfter \in DOMAIN lastRun.after.folders
        /\ lastRun.after.folders[lastRun.cwdAfter].parentId = lastRun.cwdBefore
        /\ \E f \in MadeBy(prevRun) :
              lastRun.after.folders[lastRun.cwdAfter].name
                  = prevRun.after.folders[f].name

----------------------------------------------------------------------------
(* Specification of today with delete, restore and rename in between *)

TodayLines == {L_today, L_rename_1_x, L_delete_1, L_restore_1}

NextToday ==
    \/ Mount
    \/ Submit(TodayLines, MaxSubmits)
    \/ \E k \in 1..Len(running) : Stage(k)
    \/ \E k \in 1..Len(running) : Finish(k)

SpecToday == Init /\ [][NextToday]_vars

\* run is the single command `today`
IsToday(run) ==
    /\ Len(run.commands) = 1
    /\ StageWord(run.commands[1]) = W_today
    /\ trim(StageArgs(run.commands[1])) = <<>>

\* the notes of st that `today` made: those with the tag daily
DailyNotes(st) ==
    {id \in DOMAIN st.notes :
        \E k \in 1..Len(st.notes[id].tags) : st.notes[id].tags[k] = MSG_DAILY_TAG}

\* the non-deleted notes of st with the title of today
TitledToday(st) ==
    {id \in Live(st) : st.notes[id].title = MSG_DAILY \o ISODate(clock)}

----------------------------------------------------------------------------
(* Specification of the suggestion for a word that is no command *)

L_li ==
    <<"l", "i">>
L_listing ==
    <<"l", "i", "s", "t", "i", "n", "g">>
L_pim ==
    <<"p", "i", "m">>
L_pzz ==
    <<"p", "z", "z">>
L_xyzzy ==
    <<"x", "y", "z", "z", "y">>
L_ta ==
    <<"t", "a">>

SuggestLines == {L_li, L_listing, L_pim, L_pzz, L_xyzzy, L_ta}

NextSuggest ==
    \/ Mount
    \/ Submit(SuggestLines, MaxSubmits)
    \/ \E k \in 1..Len(running) : Stage(k)
    \/ \E k \in 1..Len(running) : Finish(k)

SpecSuggest == Init /\ [][NextSuggest]_vars

\* the places of the registry whose name is a prefix of tok or has tok as
\* a prefix
PrefixPlaces(tok) ==
    {k \in DOMAIN COMMAND_DEFINITIONS :
        \/ startsWith(COMMAND_DEFINITIONS[k].name, tok)
        \/ startsWith(tok, COMMAND_DEFINITIONS[k].name)}

\* the number of positions where a and b differ, plus the difference of
\* their lengths
Mismatch(a, b) ==
    Cardinality({i \in 1..Len(a) : i <= Len(b) /\ a[i] # b[i]})
        + (IF Len(a) < Len(b) THEN Len(b) - Len(a) ELSE Len(a) - Len(b))

\* the places of the registry whose name is nearest to tok
NearestPlaces(tok) ==
    {k \in DOMAIN COMMAND_DEFINITIONS :
        \A j \in DOMAIN COMMAND_DEFINITIONS :
            Mismatch(COMMAND_DEFINITIONS[k].name, tok)
                <= Mismatch(COMMAND_DEFINITIONS[j].name, tok)}

First(places) == CHOOSE k \in places : \A j \in places : k <= j

\* what the suggestion for tok is to be; <<>> stands for none
Suggested(tok) ==
    IF PrefixPlaces(tok) # {}
    THEN COMMAND_DEFINITIONS[First(PrefixPlaces(tok))].name
    ELSE IF Mismatch(COMMAND_DEFINITIONS[First(NearestPlaces(tok))].name, tok) <= 2
    THEN COMMAND_DEFINITIONS[First(NearestPlaces(tok))].name
    ELSE <<>>

\* run is one stage whose command word is neither a name nor an alias
IsUnknownWord(run) ==
    /\ Len(run.commands) = 1
    /\ CommandMatch(trim(run.commands[1])).matched
    /\ Owners(StageToken(run.commands[1])) = {}

\* C38: for a word that is no command and no alias, the suggestion is the
\* first command of the registry of which the word is a prefix or which is a
\* prefix of the word; when there is none, the first command of the registry
\* at the least positional distance, if that distance is at most 2; and
\* otherwise there is no suggestion. The answer names that suggestion.
SuggestionAsSpecified ==
    (lastRun # None /\ IsUnknownWord(lastRun)) =>
        LET tok == StageToken(lastRun.commands[1])
        IN  /\ findSimilarCommand(tok) = Suggested(tok)
            /\ lastRun.returned.output[1].type = "error"
            /\ IF Suggested(tok) = <<>>
               THEN ~HasType(lastRun.returned, "info")
               ELSE /\ lastRun.returned.output[2].type = "info"
                    /\ lastRun.returned.output[2].content
                          = MSG_DID_YOU_MEAN \o Suggested(tok) \o MSG_BACKTICK_Q

\* the three cases have been seen: a prefix (`li` gives list), a tie at
\* distance 2 decided by registry order (`pzz`), and no suggestion
SuggestionCasesSeen ==
    /\ lastRun # None /\ prevRun # None
    /\ prevRun.line = L_pzz
    /\ PrefixPlaces(L_pzz) = {}
    /\ Cardinality(NearestPlaces(L_pzz)) >= 2
    /\ HasType(prevRun.returned, "info")
    /\ lastRun.line = L_xyzzy
    /\ ~HasType(lastRun.returned, "info")
    /\ findSimilarCommand(L_li) = W_list

----------------------------------------------------------------------------
(* Specification of aliases typed in any letter case *)

L_LS ==
    <<"L", "S">>
L_Touch_a ==
    <<"T", "o", "u", "c", "h", " ", "a">>
L_question ==
    <<"?">>

CaseLines == {L_new_a, L_LS, L_Touch_a, L_rm_1, L_question}

NextCase ==
    \/ Mount
    \/ Submit(CaseLines, MaxSubmits)
    \/ \E k \in 1..Len(running) : Stage(k)
    \/ \E k \in 1..Len(running) : Finish(k)

SpecCase == Init /\ [][NextCase]_vars

\* the length of the first word of a trimmed stage: up to the first space
RECURSIVE WordEnd(_, _)
WordEnd(s, i) ==
    IF i < Len(s) /\ ~IsSpace(s[i + 1]) THEN WordEnd(s, i + 1) ELSE i

FirstWord(stage) == SubSeq(trim(stage), 1, WordEnd(trim(stage), 0))
AfterFirstWord(stage) ==
    SubSeq(trim(stage), WordEnd(trim(stage), 0) + 1, Len(trim(stage)))

\* run is one stage whose first word is, in lower case, a registered alias
IsAliasRun(run) ==
    /\ Len(run.commands) = 1
    /\ \E k \in DOMAIN COMMAND_DEFINITIONS :
          SeqContains(COMMAND_DEFINITIONS[k].aliases,
                      toLowerCase(FirstWord(run.commands[1])))

\* the canonical name of the alias run was typed with
CanonicalOf(run) == resolveAlias(toLowerCase(FirstWord(run.commands[1])))

BeginsWith(res, text) ==
    \E k \in 1..Len(res.output) : startsWith(res.output[k].content, text)

\* C39: a line whose command word is a registered alias, in any letter
\* case, is not answered as an invalid or unknown command, and its result is
\* the one the canonical command gives for the same arguments.
AliasesDispatched ==
    (lastRun # None /\ IsAliasRun(lastRun)) =>
        /\ ~BeginsWith(lastRun.results[1], MSG_INVALID_FORMAT)
        /\ ~BeginsWith(lastRun.results[1], MSG_UNKNOWN)
        /\ CanonicalOf(lastRun) # W_help =>
              lastRun.results[1] =
                  parseAndExecute(CanonicalOf(lastRun)
                                      \o AfterFirstWord(lastRun.commands[1]),
                                  [currentPath |-> lastRun.cwdBefore,
                                   pathString |-> lastRun.promptPath,
                                   hasStdin |-> FALSE, stdin |-> <<>>],
                                  lastRun.before, clock).result

----------------------------------------------------------------------------
(* Specification of config set for each valid key *)

L_config_scanlines_true ==
    <<"c", "o", "n", "f", "i", "g", " ", "s", "c", "a", "n", "l", "i", "n",
      "e", "s", " ", "t", "r", "u", "e">>
L_config_autosave_false ==
    <<"c", "o", "n", "f", "i", "g", " ", "a", "u", "t", "o", "s", "a", "v",
      "e", " ", "f", "a", "l", "s", "e">>
L_config_dateFormat_short ==
    <<"c", "o", "n", "f", "i", "g", " ", "d", "a", "t", "e", "F", "o", "r",
      "m", "a", "t", " ", "s", "h", "o", "r", "t">>
L_config_crtEnabled_true ==
    <<"c", "o", "n", "f", "i", "g", " ", "c", "r", "t", "E", "n", "a", "b",
      "l", "e", "d", " ", "t", "r", "u", "e">>
L_config_glowIntensity_half ==
    <<"c", "o", "n", "f", "i", "g", " ", "g", "l", "o", "w", "I", "n", "t",
      "e", "n", "s", "i", "t", "y", " ", "0", ".", "5">>
L_config_soundEnabled_true ==
    <<"c", "o", "n", "f", "i", "g", " ", "s", "o", "u", "n", "d", "E", "n",
      "a", "b", "l", "e", "d", " ", "t", "r", "u", "e">>
L_config_scanlines_maybe ==
    <<"c", "o", "n", "f", "i", "g", " ", "s", "c", "a", "n", "l", "i", "n",
      "e", "s", " ", "m", "a", "y", "b", "e">>

SetLines ==
    {L_config_theme_dracula, L_config_scanlines_true, L_config_autosave_false,
     L_config_dateFormat_short, L_config_crtEnabled_true,
     L_config_glowIntensity_half, L_config_soundEnabled_true,
     L_config_scanlines_maybe}

NextSet ==
    \/ Mount
    \/ Submit(SetLines, MaxSubmits)
    \/ \E k \in 1..Len(running) : Stage(k)
    \/ \E k \in 1..Len(running) : Finish(k)

SpecSet == Init /\ [][NextSet]_vars

\* the key and the value of a stage `config <key> <value>`
ConfigKey(stage) == SplitSpaces(trim(StageArgs(stage)))[1]
ConfigValue(stage) == JoinSpace(Tail(SplitSpaces(trim(StageArgs(stage)))))

\* value is a value handleConfig takes for key
ValidFor(key, value) ==
    /\ value # <<>>
    /\ key = K_theme => SeqContains(AVAILABLE_THEMES, value)
    /\ key \in {K_scanlines, K_autosave, K_crtEnabled, K_soundEnabled} =>
          value \in {V_true, V_false}
    /\ key = K_glowIntensity => ~OutsideUnit(value)

\* C40: `config <key> <value>` with a key of the list of valid keys and a
\* value valid for it answers with a success line and no error line, and
\* the value is the stored value of the key afterwards.
ConfigSetStores ==
    (/\ lastRun # None
     /\ Len(lastRun.commands) = 1
     /\ StageWord(lastRun.commands[1]) = W_config
     /\ ConfigKey(lastRun.commands[1]) \in KnownKeys
     /\ ValidFor(ConfigKey(lastRun.commands[1]),
                 ConfigValue(lastRun.commands[1]))) =>
        /\ HasType(lastRun.returned, "success")
        /\ ~HasType(lastRun.returned, "error")
        /\ getConfig(lastRun.after, ConfigKey(lastRun.commands[1]))
              = ConfigValue(lastRun.commands[1])

====
